---- MODULE Spec2Model ----
(***************************************************************************)
(* A model of the persistence layer of the music playlist manager:        *)
(* the DatabaseConnection singleton (database/connection.py), the schema  *)
(* (database/schema.py), the Song/User/Playlist repositories and the      *)
(* services on top of them.                                               *)
(*                                                                         *)
(* The storage engine is SQLite driven through Python's sqlite3 module in  *)
(* its default (legacy) transaction control: a transaction is opened       *)
(* implicitly before an INSERT/UPDATE/DELETE, a DDL statement run outside  *)
(* a transaction is committed by the engine at once, and commit()/         *)
(* rollback() end the open transaction.                                    *)
(***************************************************************************)
EXTENDS Integers, Sequences, FiniteSets, TLC

\* ------------------------------------------------------------------ bounds
MaxInstances == 2      \* DatabaseConnection objects constructed in one run
MaxTxnLen == 2         \* statements in one execute_transaction list
MaxClock == 2          \* seconds that pass on the CURRENT_TIMESTAMP clock
MaxUsers == 2          \* user ids in use

MaxThreads == 2        \* threads calling into the manager at the same time
MaxTracks == 3         \* tracks held by the in-memory Playlist

InstIds == 1..MaxInstances
Threads == 1..MaxThreads
NoThread == 0
Idle == [at |-> "idle"]
Paths == {"a.db", "b.db"}
NoInstance == 0

VARIABLES
    instance,    \* DatabaseConnection._instance: NoInstance or an object id
    nobjs,       \* number of DatabaseConnection objects constructed so far
    db_path,     \* db_path[i]: _db_path of object i
    conn,        \* conn[i]: object i holds an open sqlite3 handle (_connection is not None)
    txn,         \* txn[i]: the handle of object i has an open transaction
    work,        \* work[i]: the database as seen inside the open transaction of i
    disk,        \* disk[p]: the committed content of database file p
    clock,       \* the engine's CURRENT_TIMESTAMP, in seconds
    handed,      \* objects returned by DatabaseConnection(...) since the last reset_instance
    resets,      \* whether reset_instance has been called
    lastOp,      \* the last call made and how it ended
    tracks,      \* the __tracks list of one in-memory Playlist object
    pc,          \* pc[t]: where thread t is inside the call it is making
    lock,        \* DatabaseConnection._lock: the thread holding it, or NoThread
    created,     \* history: the entities a repository create has stored, as they were passed
    added        \* history: the (playlist, song) pairs now in a playlist, in the order they were added

vars == <<instance, nobjs, db_path, conn, txn, work, disk, clock, handed, resets, lastOp,
          tracks, pc, lock, created, added>>

\* ------------------------------------------------------------ the database
TableNames == {"users", "songs", "playlists", "playlist_songs"}

EmptyStore == [tables |-> {}, users |-> {}, songs |-> {}, playlists |-> {},
               playlist_songs |-> {}]

\* The four CREATE TABLE IF NOT EXISTS statements of initialize_database, in order.
SchemaQueries ==
    << [kind |-> "create_table", table |-> "users"],
       [kind |-> "create_table", table |-> "songs"],
       [kind |-> "create_table", table |-> "playlists"],
       [kind |-> "create_table", table |-> "playlist_songs"] >>

\* Statements Python's sqlite3 opens an implicit transaction for.
IsDML(stmt) == stmt.kind \in {"insert_user", "insert_song", "insert_playlist",
                              "insert_playlist_song", "delete_playlist_songs",
                              "delete_playlist_song", "delete_playlist",
                              "update_playlist", "update_user", "delete_user",
                              "update_song", "delete_song", "invalid"}

\* The tables a statement needs (its own and those its foreign keys name).
TablesOf(stmt) ==
    CASE stmt.kind \in {"insert_user", "update_user"} -> {"users"}
      [] stmt.kind = "delete_user" -> {"users", "playlists", "playlist_songs"}
      [] stmt.kind \in {"insert_song", "update_song"} -> {"songs"}
      [] stmt.kind = "delete_song" -> {"songs", "playlist_songs"}
      [] stmt.kind \in {"insert_playlist", "update_playlist"} -> {"playlists", "users"}
      [] stmt.kind = "delete_playlist" -> {"playlists", "playlist_songs"}
      [] stmt.kind = "insert_playlist_song" -> {"playlist_songs", "playlists", "songs"}
      [] stmt.kind \in {"delete_playlist_songs", "delete_playlist_song"} -> {"playlist_songs"}
      [] stmt.kind = "select" -> {stmt.table}
      [] OTHER -> {}

Ids(rows) == {r.id : r \in rows}

\* users: id TEXT PRIMARY KEY, username TEXT UNIQUE NOT NULL, email TEXT UNIQUE NOT NULL
UsersConstraintNoUnique(rows, row) == row.id \notin Ids(rows)

UsersConstraint(rows, row) ==
    /\ row.id \notin Ids(rows)
    /\ \A r \in rows : r.username # row.username /\ r.email # row.email

\* songs: id TEXT PRIMARY KEY (no CHECK on duration in this schema)
SongsConstraint(rows, row) == row.id \notin Ids(rows)

\* playlists: id TEXT PRIMARY KEY, FOREIGN KEY (owner_id) REFERENCES users(id)
PlaylistsConstraint(st, row) ==
    /\ row.id \notin Ids(st.playlists)
    /\ row.owner_id \in Ids(st.users)

\* playlist_songs: PRIMARY KEY (playlist_id, song_id), two foreign keys
PlaylistSongsConstraintNoKey(st, row) ==
    /\ row.playlist_id \in Ids(st.playlists)
    /\ row.song_id \in Ids(st.songs)

PlaylistSongsConstraint(st, row) ==
    /\ \A r \in st.playlist_songs :
          ~(r.playlist_id = row.playlist_id /\ r.song_id = row.song_id)
    /\ row.playlist_id \in Ids(st.playlists)
    /\ row.song_id \in Ids(st.songs)

\* INSERT INTO users (id, username, email) VALUES (?, ?, ?)
UsersRow(params) == [id |-> params[1], username |-> params[2], email |-> params[3]]

\* INSERT INTO songs (id, title, artist, genre, duration) VALUES (?, ?, ?, ?, ?)
SongsRow(params) == [id |-> params[1], title |-> params[2], artist |-> params[3],
                     genre |-> params[4], duration |-> params[5]]

\* INSERT INTO playlists (id, name, owner_id) VALUES (?, ?, ?)
PlaylistsRow(params) == [id |-> params[1], name |-> params[2], owner_id |-> params[3]]

Ok(st) == [err |-> "none", st |-> st]
SqlError(st) == [err |-> "sqlite", st |-> st]
PyError(st) == [err |-> "python", st |-> st]

\* ON DELETE CASCADE from playlists to playlist_songs
CascadePlaylists(st, pids) ==
    [st EXCEPT !.playlists = {p \in @ : p.id \notin pids},
               !.playlist_songs = {r \in @ : r.playlist_id \notin pids}]

\* DELETE FROM users with foreign keys not enforced
DeleteUsersOnly(st, uids) == [st EXCEPT !.users = {u \in @ : u.id \notin uids}]

\* ON DELETE CASCADE from users to playlists (and on to playlist_songs)
CascadeUsers(st, uids) ==
    LET pids == {p.id : p \in {q \in st.playlists : q.owner_id \in uids}}
    IN [CascadePlaylists(st, pids) EXCEPT !.users = {u \in @ : u.id \notin uids}]

\* ON DELETE CASCADE from songs to playlist_songs
CascadeSongs(st, sids) ==
    [st EXCEPT !.songs = {r \in @ : r.id \notin sids},
               !.playlist_songs = {r \in @ : r.song_id \notin sids}]

\* The statements of UserRepository.update/delete and SongRepository.update/
\* delete, which the services call but whose code is not among the repository
\* files: UPDATE ... WHERE id = ? and DELETE ... WHERE id = ?, run against
\* the constraints of the schema.
ExecMissing(st, stmt) ==
    CASE stmt.kind = "update_user" ->
           \* UPDATE users SET username = ?, email = ? WHERE id = ?
           IF /\ stmt.params[3] \in Ids(st.users)
              /\ ~UsersConstraint({u \in st.users : u.id # stmt.params[3]},
                                  [id |-> stmt.params[3], username |-> stmt.params[1],
                                   email |-> stmt.params[2]])
           THEN SqlError(st)
           ELSE Ok([st EXCEPT !.users =
                       {IF u.id = stmt.params[3]
                        THEN [id |-> u.id, username |-> stmt.params[1],
                              email |-> stmt.params[2]]
                        ELSE u : u \in @}])
      [] stmt.kind = "delete_user" -> Ok(CascadeUsers(st, {stmt.params[1]}))
      [] stmt.kind = "update_song" ->
           \* UPDATE songs SET title = ?, artist = ?, genre = ?, duration = ? WHERE id = ?
           Ok([st EXCEPT !.songs =
                  {IF r.id = stmt.params[5]
                   THEN [id |-> r.id, title |-> stmt.params[1], artist |-> stmt.params[2],
                         genre |-> stmt.params[3], duration |-> stmt.params[4]]
                   ELSE r : r \in @}])
      [] stmt.kind = "delete_song" -> Ok(CascadeSongs(st, {stmt.params[1]}))
      [] OTHER -> SqlError(st)

\* "CREATE TABLE name (...)": an error when the table is there
CreateTable(st, table) ==
    IF table \in st.tables THEN SqlError(st)
    ELSE Ok([st EXCEPT !.tables = @ \cup {table}])

\* "CREATE TABLE IF NOT EXISTS name (...)"
CreateTableIfNotExists(st, table) == Ok([st EXCEPT !.tables = @ \cup {table}])

\* One statement run by the engine on the database st at time now.
\* A failing statement changes nothing (SQLite aborts the statement).
Exec(st, stmt, now) ==
    IF stmt.kind = "python_error" THEN PyError(st)
    ELSE IF stmt.kind = "invalid" THEN SqlError(st)
    ELSE IF stmt.kind = "create_table"
      THEN CreateTableIfNotExists(st, stmt.table)
    ELSE IF ~(TablesOf(stmt) \subseteq st.tables) THEN SqlError(st)
    ELSE CASE stmt.kind = "insert_user" ->
              LET row == UsersRow(stmt.params)
              IN IF UsersConstraint(st.users, row)
                 THEN Ok([st EXCEPT !.users = @ \cup {row}])
                 ELSE SqlError(st)
           [] stmt.kind = "insert_song" ->
              LET row == SongsRow(stmt.params)
              IN IF SongsConstraint(st.songs, row)
                 THEN Ok([st EXCEPT !.songs = @ \cup {row}])
                 ELSE SqlError(st)
           [] stmt.kind = "insert_playlist" ->
              LET row == PlaylistsRow(stmt.params)
              IN IF PlaylistsConstraint(st, row)
                 THEN Ok([st EXCEPT !.playlists = @ \cup {row}])
                 ELSE SqlError(st)
           [] stmt.kind = "insert_playlist_song" ->
              \* INSERT INTO playlist_songs (playlist_id, song_id) VALUES (?, ?)
              LET row == [playlist_id |-> stmt.params[1], song_id |-> stmt.params[2],
                          added_at |-> now]
              IN IF PlaylistSongsConstraint(st, row)
                 THEN Ok([st EXCEPT !.playlist_songs = @ \cup {row}])
                 ELSE SqlError(st)
           [] stmt.kind = "delete_playlist_songs" ->
              \* DELETE FROM playlist_songs WHERE playlist_id = ?
              Ok([st EXCEPT !.playlist_songs =
                     {r \in @ : r.playlist_id # stmt.params[1]}])
           [] stmt.kind = "delete_playlist_song" ->
              \* DELETE FROM playlist_songs WHERE playlist_id = ? AND song_id = ?
              Ok([st EXCEPT !.playlist_songs =
                     {r \in @ : ~(r.playlist_id = stmt.params[1]
                                   /\ r.song_id = stmt.params[2])}])
           [] stmt.kind = "delete_playlist" ->
              \* DELETE FROM playlists WHERE id = ?
              Ok(CascadePlaylists(st, {stmt.params[1]}))
           [] stmt.kind = "update_playlist" ->
              \* UPDATE playlists SET name = ?, owner_id = ? WHERE id = ?
              IF stmt.params[3] \in Ids(st.playlists) /\ stmt.params[2] \notin Ids(st.users)
              THEN SqlError(st)
              ELSE Ok([st EXCEPT !.playlists =
                          {IF p.id = stmt.params[3]
                           THEN [id |-> p.id, name |-> stmt.params[1],
                                 owner_id |-> stmt.params[2]]
                           ELSE p : p \in @}])
           [] stmt.kind = "select" -> Ok(st)
           [] OTHER -> ExecMissing(st, stmt)

\* ------------------------------------------------- the handle of one object
\* D = [disk, work, txn]: the files and the transactions of all handles.
Cur == [disk |-> disk, work |-> work, txn |-> txn]

View(D, i) == IF D.txn[i] THEN D.work[i] ELSE D.disk[db_path[i]]

\* Another handle on the same file holds the write lock.
Locked(D, i) == \E j \in InstIds : j # i /\ conn[j] /\ D.txn[j] /\ db_path[j] = db_path[i]

\* sqlite3.Connection.commit()
Commit(D, i) ==
    IF D.txn[i]
    THEN [disk |-> [D.disk EXCEPT ![db_path[i]] = D.work[i]],
          work |-> [D.work EXCEPT ![i] = EmptyStore],
          txn |-> [D.txn EXCEPT ![i] = FALSE]]
    ELSE D

\* sqlite3.Connection.rollback()
Rollback(D, i) ==
    [D EXCEPT !.work[i] = EmptyStore, !.txn[i] = FALSE]

\* What cursor.execute leaves behind, given the engine's result r.
CursorResult(D, i, stmt, r) ==
    IF r.err # "none"
    THEN \* the implicit BEGIN of a prepared DML statement came first
         IF IsDML(stmt) /\ stmt.kind # "invalid" /\ ~D.txn[i]
         THEN [err |-> r.err,
               D |-> [D EXCEPT !.work[i] = View(D, i), !.txn[i] = TRUE]]
         ELSE [err |-> r.err, D |-> D]
    ELSE IF D.txn[i] \/ IsDML(stmt)
         THEN [err |-> "none",
               D |-> [D EXCEPT !.work[i] = r.st, !.txn[i] = TRUE]]
         ELSE [err |-> "none",
               D |-> [D EXCEPT !.disk[db_path[i]] = r.st]]

\* cursor.execute(query, params) on the handle of object i.  envfail: the
\* engine rejects the statement for a reason outside the data (I/O error,
\* file locked by another process).
CursorExecute(D, i, stmt, now, envfail) ==
    IF stmt.kind = "python_error" THEN [err |-> "python", D |-> D]
    ELSE IF envfail \/ Locked(D, i) THEN [err |-> "sqlite", D |-> D]
    ELSE CursorResult(D, i, stmt, Exec(View(D, i), stmt, now))

\* The for loop of execute_transaction: statements k..Len(queries), stopping
\* at the first one that raises.  failAt: the statement the engine rejects.
RECURSIVE RunQueries(_, _, _, _, _, _)
RECURSIVE RunRest(_, _, _, _, _, _)
RunRest(r, i, queries, k, now, failAt) ==
    IF r.err # "none" THEN r ELSE RunQueries(r.D, i, queries, k + 1, now, failAt)

RunQueries(D, i, queries, k, now, failAt) ==
    IF k > Len(queries) THEN [err |-> "none", D |-> D]
    ELSE RunRest(CursorExecute(D, i, queries[k], now, failAt = k),
                 i, queries, k, now, failAt)

Outcome(err) == CASE err = "none" -> "ok"
                  [] err = "sqlite" -> "sqlite3.Error"
                  [] err = "python" -> "Exception"
                  [] err = "runtime" -> "RuntimeError"
                  [] err = "value" -> "ValueError"

\* "if self._connection is None: raise RuntimeError(...)"
NotConnectedNever(i) == FALSE

NotConnected(i) == ~conn[i]

\* "except sqlite3.Error: self._connection.rollback(); raise" of execute_update
UpdateNoRollback(r, i) == r.D

UpdateExceptSqliteError(r, i) ==
    IF r.err = "sqlite" THEN Rollback(r.D, i) ELSE r.D

\* "self._connection.commit()" after the statement, or the except clause
UpdateEnd(r, i) ==
    IF r.err = "none" THEN [err |-> "none", D |-> Commit(r.D, i)]
    ELSE [err |-> r.err, D |-> UpdateExceptSqliteError(r, i)]

\* DatabaseConnection.execute_update
execute_update(D, i, stmt, now, envfail) ==
    IF NotConnected(i) THEN [err |-> "runtime", D |-> D]
    ELSE UpdateEnd(CursorExecute(D, i, stmt, now, envfail), i)

\* "except sqlite3.Error: self._connection.rollback(); raise" of execute_transaction
TransactionExceptSqliteError(r, i) ==
    IF r.err = "sqlite" THEN Rollback(r.D, i) ELSE r.D

TransactionEnd(r, i) ==
    IF r.err = "none" THEN [err |-> "none", D |-> Commit(r.D, i)]
    ELSE [err |-> r.err, D |-> TransactionExceptSqliteError(r, i)]

\* DatabaseConnection.execute_transaction
execute_transaction(D, i, queries, now, failAt) ==
    IF NotConnected(i) THEN [err |-> "runtime", D |-> D]
    ELSE TransactionEnd(RunQueries(D, i, queries, 1, now, failAt), i)

\* DatabaseConnection.execute_query with a SELECT on one table.  The caller
\* computes the rows of its query from st when err = "none".
execute_query(D, i, table, envfail) ==
    IF NotConnected(i) THEN [err |-> "runtime", st |-> EmptyStore]
    ELSE [err |-> CursorExecute(D, i, [kind |-> "select", table |-> table], 0, envfail).err,
          st |-> View(D, i)]

SetDb(D) == disk' = D.disk /\ work' = D.work /\ txn' = D.txn

\* ------------------------------------------------------ DatabaseConnection
Objs == 1..nobjs

\* "if cls._instance is None" of __new__
NeedsNewInstanceAlways == TRUE

NeedsNewInstance == instance = NoInstance

NoArg == [kind |-> "none"]

Call(op, i, outcome, arg) == [op |-> op, inst |-> i, outcome |-> outcome, arg |-> arg]

CallRet(op, i, outcome, arg, ret) ==
    [op |-> op, inst |-> i, outcome |-> outcome, arg |-> arg, ret |-> ret]

\* A call on the manager ends with r: the database it leaves and how it ended.
Returns(op, i, r, arg) ==
    /\ SetDb(r.D)
    /\ lastOp' = Call(op, i, Outcome(r.err), arg)

\* DatabaseConnection(db_path)
Construct(path) ==
    /\ IF NeedsNewInstance
       THEN /\ nobjs < MaxInstances
            /\ nobjs' = nobjs + 1
            /\ instance' = nobjs + 1
            /\ db_path' = [db_path EXCEPT ![nobjs + 1] = path]
       ELSE UNCHANGED <<nobjs, instance, db_path>>
    /\ handed' = handed \cup {instance'}
    /\ lastOp' = Call("construct", instance', "ok", [path |-> path])
    /\ UNCHANGED <<conn, txn, work, disk, clock, resets, tracks, pc, lock, created, added>>

\* DatabaseConnection(db_path) statement by statement, as thread t runs it.
\* pc[t].waited: the thread went through "with cls._lock".
At(t, label) == pc[t].at = label

Goto(t, label, waited) ==
    pc' = [pc EXCEPT ![t] = [at |-> label, path |-> pc[t].path, waited |-> waited]]

\* "if cls._instance is None:" outside the lock
NewEnter(t, path) ==
    /\ At(t, "idle")
    /\ pc' = [pc EXCEPT ![t] = [at |-> IF NeedsNewInstance THEN "wait" ELSE "return",
                                path |-> path, waited |-> FALSE]]
    /\ UNCHANGED <<instance, nobjs, db_path, conn, txn, work, disk, clock, handed, resets,
                   lastOp, tracks, lock, created, added>>

\* "with cls._lock:" is entered
NewAcquire(t) ==
    /\ At(t, "wait")
    /\ lock = NoThread
    /\ lock' = t
    /\ Goto(t, "locked", TRUE)
    /\ UNCHANGED <<instance, nobjs, db_path, conn, txn, work, disk, clock, handed, resets,
                   lastOp, tracks, created, added>>

\* "if cls._instance is None:" inside the lock, with no second look
StillNoneUnchecked == TRUE

\* "if cls._instance is None:" inside the lock
StillNone == instance = NoInstance

\* "cls._instance = super().__new__(cls)", or the if is skipped
NewCreate(t) ==
    /\ At(t, "locked")
    /\ IF StillNone
       THEN /\ nobjs < MaxInstances
            /\ nobjs' = nobjs + 1
            /\ instance' = nobjs + 1
            /\ Goto(t, "bind", TRUE)
       ELSE /\ UNCHANGED <<nobjs, instance>>
            /\ Goto(t, "release", TRUE)
    /\ UNCHANGED <<db_path, conn, txn, work, disk, clock, handed, resets, lastOp, tracks,
                   lock, created, added>>

\* "cls._instance._db_path = db_path"
NewBind(t) ==
    /\ At(t, "bind")
    /\ db_path' = [db_path EXCEPT ![instance] = pc[t].path]
    /\ Goto(t, "release", TRUE)
    /\ UNCHANGED <<instance, nobjs, conn, txn, work, disk, clock, handed, resets, lastOp,
                   tracks, lock, created, added>>

\* the with block is left
NewRelease(t) ==
    /\ At(t, "release")
    /\ lock' = NoThread
    /\ Goto(t, "return", TRUE)
    /\ UNCHANGED <<instance, nobjs, db_path, conn, txn, work, disk, clock, handed, resets,
                   lastOp, tracks, created, added>>

\* "return cls._instance": the attribute is read again; NoInstance is None
NewReturn(t) ==
    /\ At(t, "return")
    /\ handed' = IF instance = NoInstance THEN handed ELSE handed \cup {instance}
    /\ lastOp' = Call("construct", instance, "ok",
                      [path |-> pc[t].path, thread |-> t, waited |-> pc[t].waited])
    /\ pc' = [pc EXCEPT ![t] = Idle]
    /\ UNCHANGED <<instance, nobjs, db_path, conn, txn, work, disk, clock, resets, tracks,
                   lock, created, added>>

\* connect(); envfail: sqlite3.connect raises
Connect(i, envfail) ==
    /\ i \in Objs
    /\ IF conn[i] THEN UNCHANGED conn /\ lastOp' = Call("connect", i, "ok", NoArg)
       ELSE IF envfail THEN UNCHANGED conn /\ lastOp' = Call("connect", i, "sqlite3.Error", NoArg)
       ELSE conn' = [conn EXCEPT ![i] = TRUE] /\ lastOp' = Call("connect", i, "ok", NoArg)
    /\ UNCHANGED <<instance, nobjs, db_path, txn, work, disk, clock, handed, resets, tracks, pc, lock, created, added>>

\* The body of disconnect(): commit, close, forget the handle.  envfail:
\* commit() raises sqlite3.Error, which is logged and swallowed; with no
\* transaction open commit() has nothing to do and cannot fail.
DoDisconnect(i, envfail) ==
    IF conn[i] /\ ~(envfail /\ txn[i])
    THEN /\ SetDb(Commit(Cur, i))
         /\ conn' = [conn EXCEPT ![i] = FALSE]
    ELSE UNCHANGED <<disk, work, txn, conn>>

Disconnect(i, envfail) ==
    /\ i \in Objs
    /\ DoDisconnect(i, envfail)
    /\ lastOp' = Call("disconnect", i, "ok", NoArg)
    /\ UNCHANGED <<instance, nobjs, db_path, clock, handed, resets, tracks, pc, lock, created, added>>

\* reset_instance()
ResetInstance(envfail) ==
    /\ lock = NoThread
    /\ IF instance # NoInstance /\ conn[instance]
       THEN DoDisconnect(instance, envfail)
       ELSE UNCHANGED <<disk, work, txn, conn>>
    /\ instance' = NoInstance
    /\ handed' = {}
    /\ resets' = TRUE
    /\ lastOp' = Call("reset_instance", instance, "ok", NoArg)
    /\ UNCHANGED <<nobjs, db_path, clock, tracks, pc, lock, created, added>>

\* execute_query(query, params) with a SELECT
ExecuteQuery(i, table, envfail) ==
    /\ i \in Objs
    /\ lastOp' = Call("execute_query", i,
                      Outcome(execute_query(Cur, i, table, envfail).err), NoArg)
    /\ UNCHANGED <<instance, nobjs, db_path, conn, txn, work, disk, clock, handed, resets, tracks, pc, lock, created, added>>

\* execute_update(query, params)
ExecuteUpdate(i, stmt, envfail) ==
    /\ i \in Objs
    /\ Returns("execute_update", i, execute_update(Cur, i, stmt, clock, envfail), stmt)
    /\ UNCHANGED <<instance, nobjs, db_path, conn, clock, handed, resets, tracks, pc, lock, created, added>>

\* execute_transaction(queries)
ExecuteTransaction(i, queries, failAt) ==
    /\ i \in Objs
    /\ Returns("execute_transaction", i,
               execute_transaction(Cur, i, queries, clock, failAt), NoArg)
    /\ UNCHANGED <<instance, nobjs, db_path, conn, clock, handed, resets, tracks, pc, lock, created, added>>

\* execute_transaction(queries) statement by statement, as thread t runs it
\* on the manager i.  pc[t].k: the statement cursor.execute runs next;
\* pc[t].before: the songs committed when the call began.
TxnEnter(t, i, queries) ==
    /\ At(t, "idle")
    /\ i \in Objs
    /\ conn[i]
    /\ pc' = [pc EXCEPT ![t] = [at |-> "for", inst |-> i, queries |-> queries, k |-> 1,
                                err |-> "none",
                                before |-> Ids(disk[db_path[i]].songs)]]
    /\ UNCHANGED <<instance, nobjs, db_path, conn, txn, work, disk, clock, handed, resets,
                   lastOp, tracks, lock, created, added>>

TxnStepEnd(t, r) ==
    /\ SetDb(r.D)
    /\ pc' = [pc EXCEPT ![t] = IF r.err = "none" THEN [@ EXCEPT !.k = @ + 1]
                               ELSE [@ EXCEPT !.at = "except", !.err = r.err]]

\* "cursor.execute(query, params)" of the for loop
TxnStep(t) ==
    /\ At(t, "for")
    /\ pc[t].k <= Len(pc[t].queries)
    /\ TxnStepEnd(t, CursorExecute(Cur, pc[t].inst, pc[t].queries[pc[t].k], clock, FALSE))
    /\ UNCHANGED <<instance, nobjs, db_path, conn, clock, handed, resets, lastOp, tracks,
                   lock, created, added>>

TxnReturns(t, outcome) ==
    /\ lastOp' = Call("execute_transaction", pc[t].inst, outcome,
                      [thread |-> t, queries |-> pc[t].queries, before |-> pc[t].before])
    /\ pc' = [pc EXCEPT ![t] = Idle]
    /\ UNCHANGED <<instance, nobjs, db_path, conn, clock, handed, resets, tracks, lock,
                   created, added>>

\* "self._connection.commit()" after the loop
TxnCommit(t) ==
    /\ At(t, "for")
    /\ pc[t].k > Len(pc[t].queries)
    /\ SetDb(Commit(Cur, pc[t].inst))
    /\ TxnReturns(t, "ok")

\* "except sqlite3.Error: self._connection.rollback(); raise"
TxnExcept(t) ==
    /\ At(t, "except")
    /\ SetDb(TransactionExceptSqliteError([err |-> pc[t].err, D |-> Cur], pc[t].inst))
    /\ TxnReturns(t, Outcome(pc[t].err))

\* initialize_database(db_connection)
InitializeDatabase(i, failAt) ==
    /\ i \in Objs
    /\ Returns("initialize_database", i,
               execute_transaction(Cur, i, SchemaQueries, clock, failAt), NoArg)
    /\ UNCHANGED <<instance, nobjs, db_path, conn, clock, handed, resets, tracks, pc, lock, created, added>>

\* ------------------------------------------ the connection manager on its own
Txt(c) == <<c>>

SongParams(id) == <<id, Txt("t"), Txt("a"), Txt("g"), 180>>

\* The statements a caller hands to execute_update / execute_transaction here.
DbStmts ==
    { [kind |-> "insert_song", params |-> SongParams("s1")],
      [kind |-> "insert_song", params |-> SongParams("s2")],
      [kind |-> "create_table", table |-> "songs"],
      [kind |-> "invalid"],
      [kind |-> "python_error"] }

RECURSIVE SeqsUpTo(_, _)
SeqsUpTo(S, n) ==
    IF n = 0 THEN {<<>>}
    ELSE LET shorter == SeqsUpTo(S, n - 1)
         IN shorter \cup {Append(q, x) : q \in {t \in shorter : Len(t) = n - 1}, x \in S}

DbTransactions == SeqsUpTo(DbStmts, MaxTxnLen) \ {<<>>}

\* What the callers of the lifecycle specification run on a handle.
LifeStmts ==
    { [kind |-> "create_table", table |-> "songs"],
      [kind |-> "insert_song", params |-> SongParams("s1")] }

LifeTransactions ==
    { << [kind |-> "insert_song", params |-> SongParams("s1")], [kind |-> "python_error"] >> }

\* The process before the first DatabaseConnection(...): no object, empty files.
Init ==
    /\ instance = NoInstance
    /\ nobjs = 0
    /\ db_path = [i \in InstIds |-> "a.db"]
    /\ conn = [i \in InstIds |-> FALSE]
    /\ txn = [i \in InstIds |-> FALSE]
    /\ work = [i \in InstIds |-> EmptyStore]
    /\ disk = [p \in Paths |-> EmptyStore]
    /\ clock = 0
    /\ handed = {}
    /\ resets = FALSE
    /\ tracks = <<>>
    /\ pc = [t \in Threads |-> Idle]
    /\ lock = NoThread
    /\ lastOp = Call("none", 0, "ok", NoArg)
    /\ created = {}
    /\ added = <<>>

\* The lifecycle of the singleton: construction, connect, disconnect, reset,
\* with a few writes so that there is data to keep or to lose.
Next ==
    \/ \E p \in Paths : Construct(p)
    \/ \E i \in InstIds, f \in BOOLEAN : Connect(i, f)
    \/ \E i \in InstIds, f \in BOOLEAN : Disconnect(i, f)
    \/ \E f \in BOOLEAN : ResetInstance(f)
    \/ \E i \in InstIds, s \in LifeStmts : ExecuteUpdate(i, s, FALSE)
    \/ \E i \in InstIds, q \in LifeTransactions : ExecuteTransaction(i, q, 0)

Spec == Init /\ [][Next]_vars

\* Threads constructing the singleton at the same time, and reset_instance
\* called among them.
NextThreads ==
    \/ \E t \in Threads, p \in Paths : NewEnter(t, p)
    \/ \E t \in Threads : NewAcquire(t)
    \/ \E t \in Threads : NewCreate(t)
    \/ \E t \in Threads : NewBind(t)
    \/ \E t \in Threads : NewRelease(t)
    \/ \E t \in Threads : NewReturn(t)
    \/ ResetInstance(FALSE)

SpecThreads == Init /\ [][NextThreads]_vars

\* One manager, constructed on a.db and not yet connected, and the full set
\* of statements and transactions run through it.
InitExec ==
    /\ instance = 1
    /\ nobjs = 1
    /\ db_path = [i \in InstIds |-> "a.db"]
    /\ conn = [i \in InstIds |-> FALSE]
    /\ txn = [i \in InstIds |-> FALSE]
    /\ work = [i \in InstIds |-> EmptyStore]
    /\ disk = [p \in Paths |-> EmptyStore]
    /\ clock = 0
    /\ handed = {1}
    /\ resets = FALSE
    /\ tracks = <<>>
    /\ pc = [t \in Threads |-> Idle]
    /\ lock = NoThread
    /\ lastOp = Call("construct", 1, "ok", NoArg)
    /\ created = {}
    /\ added = <<>>

NextExec ==
    \/ \E f \in BOOLEAN : Connect(1, f)
    \/ \E f \in BOOLEAN : Disconnect(1, f)
    \/ \E t \in TableNames, f \in BOOLEAN : ExecuteQuery(1, t, f)
    \/ \E s \in DbStmts, f \in BOOLEAN : ExecuteUpdate(1, s, f)
    \/ \E q \in DbTransactions, k \in 0..MaxTxnLen : ExecuteTransaction(1, q, k)
    \/ \E k \in 0..Len(SchemaQueries) : InitializeDatabase(1, k)

SpecExec == InitExec /\ [][NextExec]_vars

\* ------------------------------------------------------------------- text
\* A str is a sequence of one-character strings.
LowerChars == <<"a", "b", "c", "d", "o">>
UpperChars == <<"A", "B", "C", "D", "O">>

Range(f) == {f[k] : k \in DOMAIN f}
Letters == Range(LowerChars) \cup Range(UpperChars)
Digits == {"1", "2"}
Whitespace == {" "}

IndexIn(c, chars) == CHOOSE k \in DOMAIN chars : chars[k] = c

\* str.lower() and str.upper() on one character
LowerChar(c) == IF c \in Range(UpperChars) THEN LowerChars[IndexIn(c, UpperChars)] ELSE c
UpperChar(c) == IF c \in Range(LowerChars) THEN UpperChars[IndexIn(c, LowerChars)] ELSE c

\* str.lower()
Lower(s) == [k \in DOMAIN s |-> LowerChar(s[k])]

\* str.title(): a cased character is upper-cased after an uncased one (or at
\* the start) and lower-cased after a cased one.
Title(s) == [k \in DOMAIN s |->
                IF k > 1 /\ s[k - 1] \in Letters THEN LowerChar(s[k]) ELSE UpperChar(s[k])]

\* str.strip()
RECURSIVE LStrip(_)
LStrip(s) == IF s # <<>> /\ Head(s) \in Whitespace THEN LStrip(Tail(s)) ELSE s

RECURSIVE RStrip(_)
RStrip(s) == IF s # <<>> /\ s[Len(s)] \in Whitespace
             THEN RStrip(SubSeq(s, 1, Len(s) - 1)) ELSE s

Strip(s) == RStrip(LStrip(s))

\* s.replace('_', '').replace('-', '').isalnum()
Without(s, chars) == LET Keep(c) == c \notin chars IN SelectSeq(s, Keep)
IsAlnum(s) == s # <<>> /\ \A k \in DOMAIN s : s[k] \in Letters \cup Digits

\* Python's None, where an object is expected and where a str is expected
None == [none |-> TRUE]
NoneStr == <<"None">>
NoneId == "None"

\* ------------------------------------------------------------ UserService
MIN_USERNAME_LENGTH == 3
MAX_USERNAME_LENGTH == 30

\* EMAIL_PATTERN = ^[a-zA-Z0-9._%+-]+@[a-zA-Z0-9.-]+\.[a-zA-Z]{2,}$
EmailLocalChars == Letters \cup Digits \cup {".", "_", "%", "+", "-"}
EmailDomainChars == Letters \cup Digits \cup {".", "-"}

EMAIL_PATTERN_match(s) ==
    \E at \in 2..Len(s) : \E dot \in (at + 2)..(Len(s) - 2) :
        /\ s[at] = "@"
        /\ s[dot] = "."
        /\ \A k \in 1..(at - 1) : s[k] \in EmailLocalChars
        /\ \A k \in (at + 1)..(dot - 1) : s[k] \in EmailDomainChars
        /\ \A k \in (dot + 1)..Len(s) : s[k] \in Letters

\* _validate_username: TRUE when no ValidationError is raised
validate_username(username) ==
    /\ username # NoneStr
    /\ username # <<>>
    /\ Strip(username) # <<>>
    /\ Len(Strip(username)) >= MIN_USERNAME_LENGTH
    /\ Len(Strip(username)) <= MAX_USERNAME_LENGTH
    /\ IsAlnum(Without(Strip(username), {"_", "-"}))

\* _validate_email: TRUE when no ValidationError is raised
validate_email(email) ==
    /\ email # NoneStr
    /\ email # <<>>
    /\ Strip(email) # <<>>
    /\ EMAIL_PATTERN_match(Strip(email))

\* "username = username.strip().title()" and "email = email.strip().lower()"
NormalizeUsername(username) == Title(Strip(username))
NormalizeEmail(email) == Lower(Strip(email))

\* --------------------------------------------------------- UserRepository
\* The manager the repositories and services were built with.
RepoDb == 1

\* The User object: id (uuid4 at construction), username, email
User(id, username, email) == [id |-> id, username |-> username, email |-> email]

\* "user = User(username=row[1], email=row[2]); user._User__id = row[0]"
UserFromRow(row) == User(row[1], row[2], row[3])

\* SELECT id, username, email FROM users WHERE <col> = ?
SelectUsers(st, col, value) ==
    {<<r.id, r.username, r.email>> : r \in {u \in st.users : u[col] = value}}

\* "if not results: return None; row = results[0]; ..."
FirstUser(q, results) ==
    IF q.err # "none" THEN [err |-> q.err, ret |-> None]
    ELSE IF results = {} THEN [err |-> "none", ret |-> None]
    ELSE [err |-> "none", ret |-> UserFromRow(CHOOSE row \in results : TRUE)]

UsersRead(q, col, value) == FirstUser(q, SelectUsers(q.st, col, value))

UserRepository_read_by(D, col, value) ==
    UsersRead(execute_query(D, RepoDb, "users", FALSE), col, value)

UserRepository_read_by_id(D, user_id) == UserRepository_read_by(D, "id", user_id)
UserRepository_read_by_username(D, username) == UserRepository_read_by(D, "username", username)
UserRepository_read_by_email(D, email) == UserRepository_read_by(D, "email", email)

\* What a repository write gives back: the error raised if any, the
\* database, the value returned.
Wrote(r, ret) == [err |-> r.err, D |-> r.D, ret |-> IF r.err = "none" THEN ret ELSE None]

\* UserRepository.create: INSERT through execute_update; any exception is re-raised
UserRepository_create(D, user, envfail) ==
    Wrote(execute_update(D, RepoDb,
                         [kind |-> "insert_user",
                          params |-> <<user.id, user.username, user.email>>],
                         clock, envfail),
          user.id)

\* UserRepository.update and UserRepository.delete: called by UserService,
\* declared by BaseRepository; one UPDATE / DELETE by id through
\* execute_update, returning whether a row matched.
UserRepository_update(D, user, envfail) ==
    IF user.id \notin Ids(View(D, RepoDb).users)
    THEN [err |-> "none", D |-> D, ret |-> FALSE]
    ELSE Wrote(execute_update(D, RepoDb,
                              [kind |-> "update_user",
                               params |-> <<user.username, user.email, user.id>>],
                              clock, envfail),
               TRUE)

UserRepository_delete(D, user_id, envfail) ==
    IF user_id \notin Ids(View(D, RepoDb).users)
    THEN [err |-> "none", D |-> D, ret |-> FALSE]
    ELSE Wrote(execute_update(D, RepoDb,
                              [kind |-> "delete_user", params |-> <<user_id>>],
                              clock, envfail),
               TRUE)

\* What a service call gives back: how it ended, the database, the value returned
Result(outcome, D, ret) == [outcome |-> outcome, D |-> D, ret |-> ret]

\* The same for a repository call, whose exceptions are those of the manager
AsResult(r) == Result(Outcome(r.err), r.D, r.ret)

\* create_user after validation and normalization: the two duplicate checks,
\* then "user = User(...); self.user_repo.create(user)" in its try block.
CreateUserEndNoEmailCheck(D, byName, byEmail, r, user) ==
    IF byName.err # "none" THEN Result(Outcome(byName.err), D, None)
    ELSE IF byName.ret # None THEN Result("DuplicateEntityError", D, None)
    ELSE IF r.err # "none" THEN Result("DatabaseError", r.D, None)
    ELSE Result("ok", r.D, user)

CreateUserEnd(D, byName, byEmail, r, user) ==
    IF byName.err # "none" THEN Result(Outcome(byName.err), D, None)
    ELSE IF byName.ret # None THEN Result("DuplicateEntityError", D, None)
    ELSE IF byEmail.err # "none" THEN Result(Outcome(byEmail.err), D, None)
    ELSE IF byEmail.ret # None THEN Result("DuplicateEntityError", D, None)
    ELSE IF r.err # "none" THEN Result("DatabaseError", r.D, None)
    ELSE Result("ok", r.D, user)

CreateUserChecked(D, user, envfail) ==
    CreateUserEnd(D, UserRepository_read_by_username(D, user.username),
                  UserRepository_read_by_email(D, user.email),
                  UserRepository_create(D, user, envfail), user)

\* UserService.create_user(username, email); newid: the uuid4 of the new User
create_user(D, username, email, newid, envfail) ==
    IF ~validate_username(username) THEN Result("ValidationError", D, None)
    ELSE IF ~validate_email(email) THEN Result("ValidationError", D, None)
    ELSE CreateUserChecked(D, User(newid, NormalizeUsername(username),
                                   NormalizeEmail(email)), envfail)

\* "if not user: raise EntityNotFoundError"
FoundOrRaise(D, q) ==
    IF q.err # "none" THEN Result(Outcome(q.err), D, None)
    ELSE IF q.ret = None THEN Result("EntityNotFoundError", D, None)
    ELSE Result("ok", D, q.ret)

\* UserService.get_user_by_id
get_user_by_id(D, user_id) == FoundOrRaise(D, UserRepository_read_by_id(D, user_id))

\* "if existing and existing.id != user_id: raise DuplicateEntityError"
OtherHolderUnchecked(D, existing, user_id, changed) ==
    IF existing.err # "none" THEN Result(Outcome(existing.err), D, None)
    ELSE Result("ok", D, changed)

OtherHolder(D, existing, user_id, changed) ==
    IF existing.err # "none" THEN Result(Outcome(existing.err), D, None)
    ELSE IF existing.ret # None /\ existing.ret.id # user_id
         THEN Result("DuplicateEntityError", D, None)
    ELSE Result("ok", D, changed)

\* The username step of update_user on the loaded user: the user afterwards,
\* or the error raised.
UpdateUsername(D, user, user_id, new_username) ==
    IF new_username \in {NoneStr, <<>>} \/ NormalizeUsername(new_username) = user.username
    THEN Result("ok", D, user)
    ELSE IF ~validate_username(new_username) THEN Result("ValidationError", D, None)
    ELSE OtherHolder(D, UserRepository_read_by_username(D, NormalizeUsername(new_username)),
                     user_id, [user EXCEPT !.username = NormalizeUsername(new_username)])

\* The email step of update_user
UpdateEmail(D, user, user_id, new_email) ==
    IF new_email \in {NoneStr, <<>>} \/ NormalizeEmail(new_email) = user.email
    THEN Result("ok", D, user)
    ELSE IF ~validate_email(new_email) THEN Result("ValidationError", D, None)
    ELSE OtherHolder(D, UserRepository_read_by_email(D, NormalizeEmail(new_email)),
                     user_id, [user EXCEPT !.email = NormalizeEmail(new_email)])

\* "success = self.user_repo.update(user) / delete(user_id)" in its try block
PersistOrRaise(r, ret) ==
    IF r.err # "none" \/ ~r.ret THEN Result("DatabaseError", r.D, None)
    ELSE Result("ok", r.D, ret)

UpdateUserPersist(D, u2, envfail) ==
    IF u2.outcome # "ok" THEN u2
    ELSE PersistOrRaise(UserRepository_update(D, u2.ret, envfail), u2.ret)

UpdateUserEmail(D, u1, user_id, new_email, envfail) ==
    IF u1.outcome # "ok" THEN u1
    ELSE UpdateUserPersist(D, UpdateEmail(D, u1.ret, user_id, new_email), envfail)

UpdateUserName(D, got, user_id, new_username, new_email, envfail) ==
    IF got.outcome # "ok" THEN got
    ELSE UpdateUserEmail(D, UpdateUsername(D, got.ret, user_id, new_username),
                         user_id, new_email, envfail)

\* UserService.update_user(user_id, new_username, new_email)
update_user(D, user_id, new_username, new_email, envfail) ==
    UpdateUserName(D, get_user_by_id(D, user_id), user_id, new_username, new_email, envfail)

DeleteUserPersist(D, got, user_id, envfail) ==
    IF got.outcome # "ok" THEN got
    ELSE PersistOrRaise(UserRepository_delete(D, user_id, envfail), TRUE)

\* UserService.delete_user(user_id)
delete_user(D, user_id, envfail) ==
    DeleteUserPersist(D, get_user_by_id(D, user_id), user_id, envfail)

\* --------------------------------------------------------- SongRepository
\* The Song object: Song(title, duration, artist, genre) with its uuid4 id
Song(id, title, duration, artist, genre) ==
    [id |-> id, title |-> title, duration |-> duration, artist |-> artist, genre |-> genre]

\* "song = Song(title=row[1], artist=row[2], genre=row[3], duration=row[4]);
\*  song._AudioTrack__id = row[0]"
SongFromRowSwapped(row) == Song(row[1], row[2], row[5], row[4], row[3])

SongFromRow(row) == Song(row[1], row[2], row[5], row[3], row[4])

\* SELECT id, title, artist, genre, duration FROM songs WHERE id = ?
SelectSongs(st, song_id) ==
    {<<r.id, r.title, r.artist, r.genre, r.duration>> : r \in {x \in st.songs : x.id = song_id}}

FirstSong(q, results) ==
    IF q.err # "none" THEN [err |-> q.err, ret |-> None]
    ELSE IF results = {} THEN [err |-> "none", ret |-> None]
    ELSE [err |-> "none", ret |-> SongFromRow(CHOOSE row \in results : TRUE)]

SongsRead(q, song_id) == FirstSong(q, SelectSongs(q.st, song_id))

SongRepository_read_by_id(D, song_id) ==
    SongsRead(execute_query(D, RepoDb, "songs", FALSE), song_id)

\* SongRepository.create
\* SongRepository.create after its isinstance check:
\* "INSERT INTO songs (id, title, artist, genre, duration) VALUES (?, ?, ?, ?, ?)"
InsertSong(D, song, envfail) ==
    Wrote(execute_update(D, RepoDb,
                         [kind |-> "insert_song",
                          params |-> <<song.id, song.title, song.artist, song.genre,
                                       song.duration>>],
                         clock, envfail),
          song.id)

\* SongRepository.create(song); None stands for an argument that is not a Song
SongRepository_create(D, song, envfail) ==
    IF song = None THEN [err |-> "value", D |-> D, ret |-> None]
    ELSE InsertSong(D, song, envfail)

\* SongRepository.update and SongRepository.delete: called by SongService,
\* declared by BaseRepository; one UPDATE / DELETE by id through
\* execute_update, returning whether a row matched.
SongRepository_update(D, song, envfail) ==
    IF song.id \notin Ids(View(D, RepoDb).songs)
    THEN [err |-> "none", D |-> D, ret |-> FALSE]
    ELSE Wrote(execute_update(D, RepoDb,
                              [kind |-> "update_song",
                               params |-> <<song.title, song.artist, song.genre,
                                            song.duration, song.id>>],
                              clock, envfail),
               TRUE)

SongRepository_delete(D, song_id, envfail) ==
    IF song_id \notin Ids(View(D, RepoDb).songs)
    THEN [err |-> "none", D |-> D, ret |-> FALSE]
    ELSE Wrote(execute_update(D, RepoDb,
                              [kind |-> "delete_song", params |-> <<song_id>>],
                              clock, envfail),
               TRUE)

\* ----------------------------------------------------------- TrackFactory
\* TrackFactory.create_song(title, duration, artist, genre); newid is the
\* uuid4 that AudioTrack.__init__ draws.
TrackFactory_create_song(title, duration, artist, genre, newid) ==
    IF duration < 0 THEN [outcome |-> "ValueError", ret |-> None]
    ELSE [outcome |-> "ok", ret |-> Song(newid, title, duration, artist, genre)]

\* ------------------------------------------------------------ SongService
MAX_TITLE_LENGTH == 200
MIN_DURATION == 1
MAX_DURATION == 36000

\* _validate_title, _validate_artist, _validate_genre, _validate_duration:
\* TRUE when none of them raises ValidationError
validate_song(title, artist, genre, duration) ==
    /\ title # <<>> /\ Strip(title) # <<>> /\ Len(Strip(title)) <= MAX_TITLE_LENGTH
    /\ artist # <<>> /\ Strip(artist) # <<>>
    /\ genre # <<>> /\ Strip(genre) # <<>>
    /\ duration >= MIN_DURATION /\ duration <= MAX_DURATION

\* "except ValueError: raise ValidationError / except Exception: raise
\* DatabaseError" around the factory call and song_repo.create
CreateSongPersist(r, song) ==
    IF r.err = "value" THEN Result("ValidationError", r.D, None)
    ELSE IF r.err # "none" THEN Result("DatabaseError", r.D, None)
    ELSE Result("ok", r.D, song)

CreateSongMade(D, made, envfail) ==
    IF made.outcome = "ValueError" THEN Result("ValidationError", D, None)
    ELSE CreateSongPersist(SongRepository_create(D, made.ret, envfail), made.ret)

\* SongService.create_song(title, artist, genre, duration)
create_song(D, title, artist, genre, duration, newid, envfail) ==
    IF ~validate_song(title, artist, genre, duration)
    THEN Result("ValidationError", D, None)
    ELSE CreateSongMade(D, TrackFactory_create_song(Title(Strip(title)), duration,
                                                    Title(Strip(artist)),
                                                    Title(Strip(genre)), newid),
                        envfail)

\* SongService.get_song_by_id
get_song_by_id(D, song_id) == FoundOrRaise(D, SongRepository_read_by_id(D, song_id))

\* "title = new_title.strip().title() if new_title else existing.title" and
\* "duration = new_duration if new_duration is not None else existing.duration";
\* new_artist and new_genre are left at None.  new_duration is <<>> for None
\* and <<d>> for the integer d.
UpdatedSong(existing, song_id, new_title, new_duration) ==
    Song(song_id,
         IF new_title \in {NoneStr, <<>>} THEN existing.title ELSE Title(Strip(new_title)),
         IF new_duration = <<>> THEN existing.duration ELSE new_duration[1],
         existing.artist, existing.genre)

\* update_song from its validation on
UpdateSongPersistFirst(D, updated, envfail) ==
    IF ~validate_song(updated.title, updated.artist, updated.genre, updated.duration)
    THEN Result("ValidationError", SongRepository_update(D, updated, envfail).D, None)
    ELSE PersistOrRaise(SongRepository_update(D, updated, envfail), updated)

UpdateSongPersist(D, updated, envfail) ==
    IF ~validate_song(updated.title, updated.artist, updated.genre, updated.duration)
    THEN Result("ValidationError", D, None)
    ELSE PersistOrRaise(SongRepository_update(D, updated, envfail), updated)

UpdateSongChecked(D, got, song_id, new_title, new_duration, envfail) ==
    IF got.outcome # "ok" THEN got
    ELSE UpdateSongPersist(D, UpdatedSong(got.ret, song_id, new_title, new_duration),
                           envfail)

\* SongService.update_song(song_id, new_title, new_duration=...)
update_song(D, song_id, new_title, new_duration, envfail) ==
    UpdateSongChecked(D, get_song_by_id(D, song_id), song_id, new_title, new_duration,
                      envfail)

DeleteSongPersist(D, got, song_id, envfail) ==
    IF got.outcome # "ok" THEN got
    ELSE PersistOrRaise(SongRepository_delete(D, song_id, envfail), TRUE)

\* SongService.delete_song(song_id)
delete_song(D, song_id, envfail) ==
    DeleteSongPersist(D, get_song_by_id(D, song_id), song_id, envfail)

\* ----------------------------------------------------- PlaylistRepository
\* The Playlist object: Playlist(name, owner_id) with its uuid4 id
Playlist(id, name, owner_id) == [id |-> id, name |-> name, owner_id |-> owner_id]

\* "playlist = Playlist(name=row[1], owner_id=row[2]); playlist._Playlist__id = row[0]"
PlaylistFromRow(row) == Playlist(row[1], row[2], row[3])

\* SELECT id, name, owner_id FROM playlists WHERE id = ?
SelectPlaylists(st, playlist_id) ==
    {<<r.id, r.name, r.owner_id>> : r \in {x \in st.playlists : x.id = playlist_id}}

FirstPlaylist(q, results) ==
    IF q.err # "none" THEN [err |-> q.err, ret |-> None]
    ELSE IF results = {} THEN [err |-> "none", ret |-> None]
    ELSE [err |-> "none", ret |-> PlaylistFromRow(CHOOSE row \in results : TRUE)]

PlaylistsRead(q, playlist_id) == FirstPlaylist(q, SelectPlaylists(q.st, playlist_id))

PlaylistRepository_read_by_id(D, playlist_id) ==
    PlaylistsRead(execute_query(D, RepoDb, "playlists", FALSE), playlist_id)

\* PlaylistRepository.create
\* Playlist.add_track(track); None stands for a value that is not an AudioTrack
Playlist_add_track(ts, track) ==
    IF track = None THEN [outcome |-> "TypeError", tracks |-> ts]
    ELSE [outcome |-> "ok", tracks |-> Append(ts, track)]

\* A remove that takes out only the first track with the id
RemoveFirstTrack(ts, track_id) ==
    LET at == {k \in 1..Len(ts) : ts[k].id = track_id}
    IN IF at = {} THEN ts
       ELSE LET first == CHOOSE k \in at : \A j \in at : k <= j
            IN [k \in 1..(Len(ts) - 1) |-> IF k < first THEN ts[k] ELSE ts[k + 1]]

\* Playlist.remove_track(track_id):
\* "[track for track in self.__tracks if track.id != track_id]"
Playlist_remove_track(ts, track_id) ==
    LET Other(track) == track.id # track_id IN SelectSeq(ts, Other)

\* Playlist.total_duration: "sum(track.duration for track in self.__tracks)"
RECURSIVE Playlist_total_duration(_)
Playlist_total_duration(ts) ==
    IF ts = <<>> THEN 0 ELSE Head(ts).duration + Playlist_total_duration(Tail(ts))

\* PlaylistRepository.create after its isinstance check:
\* "INSERT INTO playlists (id, name, owner_id) VALUES (?, ?, ?)"
InsertPlaylist(D, playlist, envfail) ==
    Wrote(execute_update(D, RepoDb,
                         [kind |-> "insert_playlist",
                          params |-> <<playlist.id, playlist.name, playlist.owner_id>>],
                         clock, envfail),
          playlist.id)

\* PlaylistRepository.create(playlist); None stands for an argument that is
\* not a Playlist
PlaylistRepository_create(D, playlist, envfail) ==
    IF playlist = None THEN [err |-> "value", D |-> D, ret |-> None]
    ELSE InsertPlaylist(D, playlist, envfail)

\* "result[0][0] > 0" on SELECT COUNT(*) FROM <table> WHERE id = ?
CountPositive(q, rows, id) == [err |-> q.err, ret |-> q.err = "none" /\ id \in Ids(rows)]

SongsExist(q, song_id) == CountPositive(q, q.st.songs, song_id)

\* SongRepository.exists
SongRepository_exists(D, song_id) ==
    SongsExist(execute_query(D, RepoDb, "songs", FALSE), song_id)

PlaylistsExist(q, playlist_id) == CountPositive(q, q.st.playlists, playlist_id)

\* PlaylistRepository.exists
PlaylistRepository_exists(D, playlist_id) ==
    PlaylistsExist(execute_query(D, RepoDb, "playlists", FALSE), playlist_id)

\* PlaylistRepository.add_song_to_playlist: returns True, raises on any failure
PlaylistRepository_add_song_to_playlist(D, playlist_id, song_id, envfail) ==
    Wrote(execute_update(D, RepoDb,
                         [kind |-> "insert_playlist_song",
                          params |-> <<playlist_id, song_id>>],
                         clock, envfail),
          TRUE)

\* The junction rows of one playlist
RowsOf(st, playlist_id) == {r \in st.playlist_songs : r.playlist_id = playlist_id}

\* SELECT song_id FROM playlist_songs WHERE playlist_id = ? ORDER BY added_at:
\* every listing of the rows by ascending added_at; SQL leaves the order of
\* rows with equal added_at to the engine.
OrderByAddedAt(rows) ==
    {o \in [1..Cardinality(rows) -> rows] :
        /\ \A r \in rows : \E k \in DOMAIN o : o[k] = r
        /\ \A k \in DOMAIN o : \A l \in DOMAIN o : k < l => o[k].added_at <= o[l].added_at}

\* "song_ids = [row[0] for row in results]"
SongIdsOf(results) == [k \in DOMAIN results |-> results[k].song_id]

SongIdLists(q, playlist_id) ==
    [outcome |-> Outcome(q.err),
     rets |-> IF q.err = "none"
              THEN {SongIdsOf(o) : o \in OrderByAddedAt(RowsOf(q.st, playlist_id))}
              ELSE {None}]

\* PlaylistRepository.get_playlist_songs: the lists it can return
PlaylistRepository_get_playlist_songs(D, playlist_id) ==
    SongIdLists(execute_query(D, RepoDb, "playlist_songs", FALSE), playlist_id)

\* SELECT COALESCE(SUM(s.duration), 0) FROM playlist_songs ps JOIN songs s
\* ON ps.song_id = s.id WHERE ps.playlist_id = ?
\* (PlaylistRepository.get_total_duration is called by the repository tests
\* but its code is not among the repository files.)
RECURSIVE SumDurations(_)
SumDurations(songs) ==
    IF songs = {} THEN 0
    ELSE LET t == CHOOSE x \in songs : TRUE IN t.duration + SumDurations(songs \ {t})

TotalDurationAllSongs(q, playlist_id) ==
    [outcome |-> Outcome(q.err),
     rets |-> IF q.err = "none" THEN {SumDurations(q.st.songs)} ELSE {None}]

TotalDuration(q, playlist_id) ==
    [outcome |-> Outcome(q.err),
     rets |-> IF q.err = "none"
              THEN {SumDurations({t \in q.st.songs :
                                     \E r \in RowsOf(q.st, playlist_id) : r.song_id = t.id})}
              ELSE {None}]

\* PlaylistRepository.get_total_duration
PlaylistRepository_get_total_duration(D, playlist_id) ==
    TotalDuration(execute_query(D, RepoDb, "playlist_songs", FALSE), playlist_id)

\* PlaylistRepository.delete after the exists check and the first DELETE r1:
\* the second execute_update, "DELETE FROM playlists WHERE id = ?".
DeletePlaylistRow(r1, playlist_id, envfail) ==
    IF r1.err # "none" THEN [err |-> r1.err, D |-> r1.D, ret |-> None]
    ELSE Wrote(execute_update(r1.D, RepoDb,
                              [kind |-> "delete_playlist", params |-> <<playlist_id>>],
                              clock, envfail),
               TRUE)

\* ... and the first one, "DELETE FROM playlist_songs WHERE playlist_id = ?"
DeleteOnlyPlaylistRow(D, found, playlist_id, failAt) ==
    IF found.err # "none" THEN [err |-> found.err, D |-> D, ret |-> None]
    ELSE IF ~found.ret THEN [err |-> "none", D |-> D, ret |-> FALSE]
    ELSE [err |-> "none",
          D |-> [D EXCEPT !.disk[db_path[RepoDb]].playlists = {l \in @ : l.id # playlist_id}],
          ret |-> TRUE]

DeleteJunctionRows(D, found, playlist_id, failAt) ==
    IF found.err # "none" THEN [err |-> found.err, D |-> D, ret |-> None]
    ELSE IF ~found.ret THEN [err |-> "none", D |-> D, ret |-> FALSE]
    ELSE DeletePlaylistRow(execute_update(D, RepoDb,
                                          [kind |-> "delete_playlist_songs",
                                           params |-> <<playlist_id>>],
                                          clock, failAt = 1),
                           playlist_id, failAt = 2)

\* PlaylistRepository.delete; failAt: which of its two statements the engine
\* rejects (0: none)
PlaylistRepository_delete(D, playlist_id, failAt) ==
    DeleteJunctionRows(D, PlaylistRepository_exists(D, playlist_id), playlist_id, failAt)

\* PlaylistRepository.update after its exists check:
\* "UPDATE playlists SET name = ?, owner_id = ? WHERE id = ?"
UpdateWithoutCheck(D, found, playlist, envfail) ==
    Wrote(execute_update(D, RepoDb,
                         [kind |-> "update_playlist",
                          params |-> <<playlist.name, playlist.owner_id, playlist.id>>],
                         clock, envfail),
          TRUE)

UpdateIfPresent(D, found, playlist, envfail) ==
    IF found.err # "none" THEN [err |-> found.err, D |-> D, ret |-> None]
    ELSE IF ~found.ret THEN [err |-> "none", D |-> D, ret |-> FALSE]
    ELSE Wrote(execute_update(D, RepoDb,
                              [kind |-> "update_playlist",
                               params |-> <<playlist.name, playlist.owner_id, playlist.id>>],
                              clock, envfail),
               TRUE)

\* PlaylistRepository.update
PlaylistRepository_update(D, playlist, envfail) ==
    UpdateIfPresent(D, PlaylistRepository_exists(D, playlist.id), playlist, envfail)

\* "if result[0][0] == 0: return False" then the DELETE
RemoveAllIfPresent(D, q, playlist_id, song_id, envfail) ==
    IF q.err # "none" THEN [err |-> q.err, D |-> D, ret |-> None]
    ELSE IF \A r \in RowsOf(q.st, playlist_id) : r.song_id # song_id
         THEN [err |-> "none", D |-> D, ret |-> FALSE]
    ELSE Wrote(execute_update(D, RepoDb,
                              [kind |-> "delete_playlist_songs",
                               params |-> <<playlist_id>>],
                              clock, envfail),
               TRUE)

RemoveIfPresent(D, q, playlist_id, song_id, envfail) ==
    IF q.err # "none" THEN [err |-> q.err, D |-> D, ret |-> None]
    ELSE IF \A r \in RowsOf(q.st, playlist_id) : r.song_id # song_id
         THEN [err |-> "none", D |-> D, ret |-> FALSE]
    ELSE Wrote(execute_update(D, RepoDb,
                              [kind |-> "delete_playlist_song",
                               params |-> <<playlist_id, song_id>>],
                              clock, envfail),
               TRUE)

\* PlaylistRepository.remove_song_from_playlist
PlaylistRepository_remove_song_from_playlist(D, playlist_id, song_id, envfail) ==
    RemoveIfPresent(D, execute_query(D, RepoDb, "playlist_songs", FALSE),
                    playlist_id, song_id, envfail)

\* -------------------------------------------------------- PlaylistService
\* PlaylistService.get_playlist_by_id
get_playlist_by_id(D, playlist_id) ==
    FoundOrRaise(D, PlaylistRepository_read_by_id(D, playlist_id))

\* "if requesting_user_id and playlist.owner_id != requesting_user_id"
NotOwnerNever(playlist, requesting_user_id) == FALSE

NotOwner(playlist, requesting_user_id) ==
    requesting_user_id \notin {NoneId, ""} /\ playlist.owner_id # requesting_user_id

MAX_NAME_LENGTH == 100

\* _validate_name: TRUE when no ValidationError is raised
validate_name(name) ==
    /\ name # NoneStr
    /\ name # <<>>
    /\ Strip(name) # <<>>
    /\ Len(Strip(name)) <= MAX_NAME_LENGTH

\* UserRepository.exists: "SELECT COUNT(*) FROM users WHERE id = ?"
UsersExist(q, user_id) == CountPositive(q, q.st.users, user_id)

UserRepository_exists(D, user_id) ==
    UsersExist(execute_query(D, RepoDb, "users", FALSE), user_id)

\* The try block of create_playlist
CreateOrRaise(r, playlist) ==
    IF r.err # "none" THEN Result("DatabaseError", r.D, None)
    ELSE Result("ok", r.D, playlist)

\* create_playlist: _validate_name, _validate_owner_exists, then
\* "Playlist(name=name.strip().title(), owner_id=owner_id)" and its create
CreatePlaylistNoOwnerCheck(D, owner, name, owner_id, newid, envfail) ==
    IF ~validate_name(name) THEN Result("ValidationError", D, None)
    ELSE CreateOrRaise(PlaylistRepository_create(D, Playlist(newid, Title(Strip(name)),
                                                             owner_id), envfail),
                       Playlist(newid, Title(Strip(name)), owner_id))

CreatePlaylistChecked(D, owner, name, owner_id, newid, envfail) ==
    IF ~validate_name(name) THEN Result("ValidationError", D, None)
    ELSE IF owner.err # "none" THEN Result(Outcome(owner.err), D, None)
    ELSE IF ~owner.ret THEN Result("EntityNotFoundError", D, None)
    ELSE CreateOrRaise(PlaylistRepository_create(D, Playlist(newid, Title(Strip(name)),
                                                             owner_id), envfail),
                       Playlist(newid, Title(Strip(name)), owner_id))

\* PlaylistService.create_playlist(name, owner_id); newid: the uuid4 of the
\* new Playlist
create_playlist(D, name, owner_id, newid, envfail) ==
    CreatePlaylistChecked(D, UserRepository_exists(D, owner_id), name, owner_id, newid,
                          envfail)

\* "if new_name: ...; playlist.name = new_name.strip().title()"
Renamed(playlist, new_name) ==
    IF new_name \in {NoneStr, <<>>} THEN playlist
    ELSE [playlist EXCEPT !.name = Title(Strip(new_name))]

\* update_playlist after the name step: the try block around playlist_repo.update
UpdatePlaylistPersist(D, playlist, envfail) ==
    PersistOrRaise(PlaylistRepository_update(D, playlist, envfail), playlist)

UpdatePlaylistChecked(D, got, new_name, requesting_user_id, envfail) ==
    IF got.outcome # "ok" THEN got
    ELSE IF NotOwner(got.ret, requesting_user_id) THEN Result("AuthorizationError", D, None)
    ELSE IF new_name \notin {NoneStr, <<>>} /\ ~validate_name(new_name)
         THEN Result("ValidationError", D, None)
    ELSE UpdatePlaylistPersist(D, Renamed(got.ret, new_name), envfail)

\* PlaylistService.update_playlist
update_playlist(D, playlist_id, new_name, requesting_user_id, envfail) ==
    UpdatePlaylistChecked(D, get_playlist_by_id(D, playlist_id), new_name,
                          requesting_user_id, envfail)

\* The try block of delete_playlist / remove_song_from_playlist around a
\* repository call r that returns a bool
DeleteOrRaise(r) ==
    IF r.err # "none" \/ ~r.ret THEN Result("DatabaseError", r.D, None)
    ELSE Result("ok", r.D, TRUE)

DeletePlaylistChecked(D, got, playlist_id, requesting_user_id, failAt) ==
    IF got.outcome # "ok" THEN got
    ELSE IF NotOwner(got.ret, requesting_user_id) THEN Result("AuthorizationError", D, None)
    ELSE DeleteOrRaise(PlaylistRepository_delete(D, playlist_id, failAt))

\* PlaylistService.delete_playlist
delete_playlist(D, playlist_id, requesting_user_id, failAt) ==
    DeletePlaylistChecked(D, get_playlist_by_id(D, playlist_id), playlist_id,
                          requesting_user_id, failAt)

\* The try block of add_song_to_playlist
AddOrRaise(r) ==
    IF r.err # "none" THEN Result("DatabaseError", r.D, None) ELSE Result("ok", r.D, TRUE)

AddSongCheckedNoSongCheck(D, got, song, playlist_id, song_id, requesting_user_id, envfail) ==
    IF got.outcome # "ok" THEN got
    ELSE IF NotOwner(got.ret, requesting_user_id) THEN Result("AuthorizationError", D, None)
    ELSE AddOrRaise(PlaylistRepository_add_song_to_playlist(D, playlist_id, song_id, envfail))

AddSongChecked(D, got, song, playlist_id, song_id, requesting_user_id, envfail) ==
    IF got.outcome # "ok" THEN got
    ELSE IF NotOwner(got.ret, requesting_user_id) THEN Result("AuthorizationError", D, None)
    ELSE IF song.err # "none" THEN Result(Outcome(song.err), D, None)
    ELSE IF ~song.ret THEN Result("EntityNotFoundError", D, None)
    ELSE AddOrRaise(PlaylistRepository_add_song_to_playlist(D, playlist_id, song_id, envfail))

\* PlaylistService.add_song_to_playlist
add_song_to_playlist(D, playlist_id, song_id, requesting_user_id, envfail) ==
    AddSongChecked(D, get_playlist_by_id(D, playlist_id), SongRepository_exists(D, song_id),
                   playlist_id, song_id, requesting_user_id, envfail)

\* The try block of remove_song_from_playlist: "return success"
RemoveOrRaise(r) ==
    IF r.err # "none" THEN Result("DatabaseError", r.D, None) ELSE Result("ok", r.D, r.ret)

RemoveSongChecked(D, got, playlist_id, song_id, requesting_user_id, envfail) ==
    IF got.outcome # "ok" THEN got
    ELSE IF NotOwner(got.ret, requesting_user_id) THEN Result("AuthorizationError", D, None)
    ELSE RemoveOrRaise(PlaylistRepository_remove_song_from_playlist(D, playlist_id, song_id,
                                                                    envfail))

\* PlaylistService.remove_song_from_playlist
remove_song_from_playlist(D, playlist_id, song_id, requesting_user_id, envfail) ==
    RemoveSongChecked(D, get_playlist_by_id(D, playlist_id), playlist_id, song_id,
                      requesting_user_id, envfail)

\* "for song_id in song_ids: song = self.song_repo.read_by_id(song_id);
\*  if song: songs.append(song)"
IfFound(q) == IF q.ret = None THEN <<>> ELSE <<q.ret>>

RECURSIVE LoadSongs(_, _)
LoadSongs(D, song_ids) ==
    IF song_ids = <<>> THEN <<>>
    ELSE IfFound(SongRepository_read_by_id(D, Head(song_ids))) \o LoadSongs(D, Tail(song_ids))

SongLists(D, got, lists) ==
    IF got.outcome # "ok" THEN [outcome |-> got.outcome, rets |-> {None}]
    ELSE IF lists.outcome # "ok" THEN [outcome |-> lists.outcome, rets |-> {None}]
    ELSE [outcome |-> "ok", rets |-> {LoadSongs(D, ids) : ids \in lists.rets}]

\* PlaylistService.get_playlist_songs: the lists of Song objects it can return
get_playlist_songs(D, playlist_id) ==
    SongLists(D, get_playlist_by_id(D, playlist_id),
              PlaylistRepository_get_playlist_songs(D, playlist_id))

\* -------------------------------------------------- calls on the user layer
\* The entities of `created` that a write to the given ids leaves as stored.
Untouched(kind, ids) == {c \in created : ~(c.kind = kind /\ c.entity.id \in ids)}

Stored(kind, entity) == [kind |-> kind, entity |-> entity]

\* The pairs of `added` whose junction row is still in the database D.
StillAdded(D) ==
    LET Has(pair) == \E r \in View(D, RepoDb).playlist_songs :
                        r.playlist_id = pair[1] /\ r.song_id = pair[2]
    IN SelectSeq(added, Has)

\* A service or repository call ends with r; the entities it stored or
\* touched are recorded in `created`.
ServiceReturns(op, r, arg, nowCreated) ==
    /\ SetDb(r.D)
    /\ lastOp' = CallRet(op, RepoDb, r.outcome, arg, r.ret)
    /\ created' = IF r.outcome = "ok" THEN nowCreated ELSE created
    /\ added' = StillAdded(r.D)

RepoReturns(op, r, arg, nowCreated) == ServiceReturns(op, AsResult(r), arg, nowCreated)

\* UserRepository().create(user)
UserRepoCreate(user, envfail) ==
    /\ RepoReturns("UserRepository.create", UserRepository_create(Cur, user, envfail),
                   user, created \cup {Stored("user", user)})
    /\ UNCHANGED <<instance, nobjs, db_path, conn, clock, handed, resets, tracks, pc, lock>>

\* UserRepository().update(user)
UserRepoUpdate(user, envfail) ==
    /\ RepoReturns("UserRepository.update", UserRepository_update(Cur, user, envfail),
                   user, Untouched("user", {user.id}))
    /\ UNCHANGED <<instance, nobjs, db_path, conn, clock, handed, resets, tracks, pc, lock>>

\* UserRepository().delete(user_id)
UserRepoDelete(user_id, envfail) ==
    /\ RepoReturns("UserRepository.delete", UserRepository_delete(Cur, user_id, envfail),
                   [id |-> user_id], Untouched("user", {user_id}))
    /\ UNCHANGED <<instance, nobjs, db_path, conn, clock, handed, resets, tracks, pc, lock>>

\* UserService().create_user(username, email)
CreateUser(username, email, newid, envfail) ==
    /\ newid \notin Ids(View(Cur, RepoDb).users)
    /\ ServiceReturns("create_user", create_user(Cur, username, email, newid, envfail),
                      [username |-> username, email |-> email],
                      created \cup {Stored("user", User(newid, NormalizeUsername(username),
                                                        NormalizeEmail(email)))})
    /\ UNCHANGED <<instance, nobjs, db_path, conn, clock, handed, resets, tracks, pc, lock>>

\* UserService().update_user(user_id, new_username, new_email)
UpdateUser(user_id, new_username, new_email, envfail) ==
    /\ ServiceReturns("update_user",
                      update_user(Cur, user_id, new_username, new_email, envfail),
                      [id |-> user_id, username |-> new_username, email |-> new_email],
                      Untouched("user", {user_id}))
    /\ UNCHANGED <<instance, nobjs, db_path, conn, clock, handed, resets, tracks, pc, lock>>

\* UserService().delete_user(user_id)
DeleteUser(user_id, envfail) ==
    /\ ServiceReturns("delete_user", delete_user(Cur, user_id, envfail),
                      [id |-> user_id], Untouched("user", {user_id}))
    /\ UNCHANGED <<instance, nobjs, db_path, conn, clock, handed, resets, tracks, pc, lock>>

\* The database after initialize_database on an empty file.
SchemaStore == [EmptyStore EXCEPT !.tables = TableNames]

\* The ids uuid4 hands out here.
AllUserIds == <<"u1", "u2", "u3", "u4">>
UserIds == {AllUserIds[k] : k \in 1..MaxUsers}

\* What callers type as a username: "ABC", " abc ", "ab"
UsernameInputs ==
    { <<"A", "B", "C">>, <<" ", "a", "b", "c", " ">>, <<"a", "b">> }

\* What callers type as an email: "A@B.CO", " d@b.co ", "a@b"
EmailInputs ==
    { <<"A", "@", "B", ".", "C", "O">>, <<" ", "d", "@", "b", ".", "c", "o", " ">>,
      <<"a", "@", "b">> }

\* The User objects handed to the repository directly: any id, names and
\* emails as typed or as the service would have normalized them.
RepoUsernames == { <<"A", "b", "c">>, <<"a", "b", "c">> }
RepoEmails == { <<"a", "@", "b", ".", "c", "o">>, <<"A", "@", "B", ".", "C", "O">> }
RepoUsers == {User(id, un, em) : id \in UserIds, un \in RepoUsernames, em \in RepoEmails}

\* A connected manager on an initialized, empty database.
InitUsers ==
    /\ instance = 1
    /\ nobjs = 1
    /\ db_path = [i \in InstIds |-> "a.db"]
    /\ conn = [i \in InstIds |-> i = 1]
    /\ txn = [i \in InstIds |-> FALSE]
    /\ work = [i \in InstIds |-> EmptyStore]
    /\ disk = [p \in Paths |-> IF p = "a.db" THEN SchemaStore ELSE EmptyStore]
    /\ clock = 0
    /\ handed = {1}
    /\ resets = FALSE
    /\ tracks = <<>>
    /\ pc = [t \in Threads |-> Idle]
    /\ lock = NoThread
    /\ lastOp = Call("initialize_database", 1, "ok", NoArg)
    /\ created = {}
    /\ added = <<>>

NextUsers ==
    \/ \E u \in RepoUsers, f \in BOOLEAN : UserRepoCreate(u, f)
    \/ \E u \in RepoUsers : UserRepoUpdate(u, FALSE)
    \/ \E id \in UserIds : UserRepoDelete(id, FALSE)
    \/ \E un \in UsernameInputs, em \in EmailInputs, id \in UserIds, f \in BOOLEAN :
          CreateUser(un, em, id, f)
    \/ \E id \in UserIds, un \in UsernameInputs \cup {NoneStr},
          em \in EmailInputs \cup {NoneStr} :
          UpdateUser(id, un, em, FALSE)
    \/ \E id \in UserIds, f \in BOOLEAN : DeleteUser(id, f)

SpecUsers == InitUsers /\ [][NextUsers]_vars

\* ------------------------------------------------ create and read it back
\* SongRepository().create(song)
SongRepoCreate(song, envfail) ==
    /\ RepoReturns("SongRepository.create", SongRepository_create(Cur, song, envfail),
                   song, created \cup {Stored("song", song)})
    /\ UNCHANGED <<instance, nobjs, db_path, conn, clock, handed, resets, tracks, pc, lock>>

\* PlaylistRepository().create(playlist)
PlaylistRepoCreate(playlist, envfail) ==
    /\ RepoReturns("PlaylistRepository.create",
                   PlaylistRepository_create(Cur, playlist, envfail),
                   playlist, created \cup {Stored("playlist", playlist)})
    /\ UNCHANGED <<instance, nobjs, db_path, conn, clock, handed, resets, tracks, pc, lock>>

\* <kind>Repository().read_by_id(id) on the database D
ReadById(D, kind, id) ==
    CASE kind = "user" -> UserRepository_read_by_id(D, id).ret
      [] kind = "song" -> SongRepository_read_by_id(D, id).ret
      [] kind = "playlist" -> PlaylistRepository_read_by_id(D, id).ret

SongIds == {"s1", "s2", "s3"}
PlaylistIds == {"p1", "p2"}

\* The entities handed to the three create methods.
RoundTripUsers ==
    {User(id, un, <<id, "@", "b", ".", "c", "o">>) : id \in UserIds, un \in RepoUsernames}
RoundTripSongs ==
    {Song(id, <<"t">>, v[1], v[2], <<"g">>) :
        id \in {"s1", "s2"}, v \in {<<1, <<"a">> >>, <<180, <<"g">> >>}}
RoundTripPlaylists ==
    {Playlist("p1", n, o) : n \in {<<"n">>, <<>>}, o \in UserIds}

NextRoundTrip ==
    \/ \E u \in RoundTripUsers : UserRepoCreate(u, FALSE)
    \/ \E t \in RoundTripSongs, f \in BOOLEAN : SongRepoCreate(t, f)
    \/ \E l \in RoundTripPlaylists : PlaylistRepoCreate(l, FALSE)

SpecRoundTrip == InitUsers /\ [][NextRoundTrip]_vars

\* ------------------------------------------------------- playlists in use
\* A call that writes junction rows ends with r; a successful add appends its
\* pair to `added`.
TrackReturns(op, r, arg, pairs) ==
    /\ SetDb(r.D)
    /\ lastOp' = CallRet(op, RepoDb, r.outcome, arg, r.ret)
    /\ added' = IF r.outcome = "ok" THEN StillAdded(r.D) \o pairs ELSE StillAdded(r.D)
    /\ created' = {c \in created : c.kind = "playlist" =>
                                      c.entity.id \in Ids(View(r.D, RepoDb).playlists)}

\* A call that reads the songs of a playlist returns one of g.rets.
ReadReturns(op, g, arg) ==
    /\ \E ret \in g.rets : lastOp' = CallRet(op, RepoDb, g.outcome, arg, ret)
    /\ UNCHANGED <<txn, work, disk, created, added>>

\* The arguments of a call on a playlist, and how many songs the playlist
\* held when the call was made.
TrackArg(playlist_id, song_id, requesting_user_id) ==
    [playlist_id |-> playlist_id, song_id |-> song_id,
     requesting_user_id |-> requesting_user_id,
     had |-> Cardinality(RowsOf(View(Cur, RepoDb), playlist_id))]

\* PlaylistRepository().add_song_to_playlist(playlist_id, song_id)
PlaylistRepoAddSong(playlist_id, song_id, envfail) ==
    /\ TrackReturns("PlaylistRepository.add_song_to_playlist",
                    AsResult(PlaylistRepository_add_song_to_playlist(
                                 Cur, playlist_id, song_id, envfail)),
                    TrackArg(playlist_id, song_id, NoneId), << <<playlist_id, song_id>> >>)
    /\ UNCHANGED <<instance, nobjs, db_path, conn, clock, handed, resets, tracks, pc, lock>>

\* PlaylistRepository().remove_song_from_playlist(playlist_id, song_id)
PlaylistRepoRemoveSong(playlist_id, song_id, envfail) ==
    /\ TrackReturns("PlaylistRepository.remove_song_from_playlist",
                    AsResult(PlaylistRepository_remove_song_from_playlist(
                                 Cur, playlist_id, song_id, envfail)),
                    TrackArg(playlist_id, song_id, NoneId), <<>>)
    /\ UNCHANGED <<instance, nobjs, db_path, conn, clock, handed, resets, tracks, pc, lock>>

\* PlaylistRepository().delete(playlist_id)
PlaylistRepoDelete(playlist_id, failAt) ==
    /\ TrackReturns("PlaylistRepository.delete",
                    AsResult(PlaylistRepository_delete(Cur, playlist_id, failAt)),
                    TrackArg(playlist_id, NoneId, NoneId), <<>>)
    /\ UNCHANGED <<instance, nobjs, db_path, conn, clock, handed, resets, tracks, pc, lock>>

\* PlaylistRepository().get_playlist_songs(playlist_id)
PlaylistRepoGetSongs(playlist_id) ==
    /\ ReadReturns("PlaylistRepository.get_playlist_songs",
                   PlaylistRepository_get_playlist_songs(Cur, playlist_id),
                   TrackArg(playlist_id, NoneId, NoneId))
    /\ UNCHANGED <<instance, nobjs, db_path, conn, clock, handed, resets, tracks, pc, lock>>

\* PlaylistRepository().get_total_duration(playlist_id)
PlaylistRepoGetTotalDuration(playlist_id) ==
    /\ ReadReturns("PlaylistRepository.get_total_duration",
                   PlaylistRepository_get_total_duration(Cur, playlist_id),
                   TrackArg(playlist_id, NoneId, NoneId))
    /\ UNCHANGED <<instance, nobjs, db_path, conn, clock, handed, resets, tracks, pc, lock>>

\* PlaylistService().add_song_to_playlist(playlist_id, song_id, requesting_user_id)
AddSongToPlaylist(playlist_id, song_id, requesting_user_id, envfail) ==
    /\ TrackReturns("add_song_to_playlist",
                    add_song_to_playlist(Cur, playlist_id, song_id, requesting_user_id,
                                         envfail),
                    TrackArg(playlist_id, song_id, requesting_user_id),
                    << <<playlist_id, song_id>> >>)
    /\ UNCHANGED <<instance, nobjs, db_path, conn, clock, handed, resets, tracks, pc, lock>>

\* PlaylistService().remove_song_from_playlist(playlist_id, song_id, requesting_user_id)
RemoveSongFromPlaylist(playlist_id, song_id, requesting_user_id, envfail) ==
    /\ TrackReturns("remove_song_from_playlist",
                    remove_song_from_playlist(Cur, playlist_id, song_id, requesting_user_id,
                                              envfail),
                    TrackArg(playlist_id, song_id, requesting_user_id), <<>>)
    /\ UNCHANGED <<instance, nobjs, db_path, conn, clock, handed, resets, tracks, pc, lock>>

\* PlaylistService().delete_playlist(playlist_id, requesting_user_id)
DeletePlaylist(playlist_id, requesting_user_id, failAt) ==
    /\ TrackReturns("delete_playlist",
                    delete_playlist(Cur, playlist_id, requesting_user_id, failAt),
                    TrackArg(playlist_id, NoneId, requesting_user_id), <<>>)
    /\ UNCHANGED <<instance, nobjs, db_path, conn, clock, handed, resets, tracks, pc, lock>>

\* PlaylistService().create_playlist(name, owner_id)
CreatePlaylist(name, owner_id, newid, envfail) ==
    /\ newid \notin Ids(View(Cur, RepoDb).playlists)
    /\ ServiceReturns("create_playlist", create_playlist(Cur, name, owner_id, newid, envfail),
                      [name |-> name, owner_id |-> owner_id],
                      created \cup {Stored("playlist",
                                           Playlist(newid, Title(Strip(name)), owner_id))})
    /\ UNCHANGED <<instance, nobjs, db_path, conn, clock, handed, resets, tracks, pc, lock>>

\* PlaylistService().update_playlist(playlist_id, new_name, requesting_user_id)
UpdatePlaylist(playlist_id, new_name, requesting_user_id, envfail) ==
    /\ ServiceReturns("update_playlist",
                      update_playlist(Cur, playlist_id, new_name, requesting_user_id, envfail),
                      [playlist_id |-> playlist_id, name |-> new_name,
                       requesting_user_id |-> requesting_user_id],
                      Untouched("playlist", {playlist_id}))
    /\ UNCHANGED <<instance, nobjs, db_path, conn, clock, handed, resets, tracks, pc, lock>>

\* PlaylistService().get_playlist_songs(playlist_id)
GetPlaylistSongs(playlist_id) ==
    /\ ReadReturns("get_playlist_songs", get_playlist_songs(Cur, playlist_id),
                   TrackArg(playlist_id, NoneId, NoneId))
    /\ UNCHANGED <<instance, nobjs, db_path, conn, clock, handed, resets, tracks, pc, lock>>

\* A second of CURRENT_TIMESTAMP passes.
Tick ==
    /\ clock < MaxClock
    /\ clock' = clock + 1
    /\ UNCHANGED <<instance, nobjs, db_path, conn, txn, work, disk, handed, resets, tracks, pc, lock, lastOp,
                   created, added>>

\* The songs and the users the playlists draw on
TrackSongs ==
    {Song(id, <<"t">>, IF id = "s3" THEN 300 ELSE 180, <<"a">>, <<"g">>) : id \in SongIds}
TrackUsers == {User(id, <<id>>, <<id, "@", "b", ".", "c", "o">>) : id \in UserIds}
TrackPlaylists == {Playlist("p1", <<"n">>, "u1")}

\* A connected manager on a database that holds the users and the songs
InitTracks ==
    /\ instance = 1
    /\ nobjs = 1
    /\ db_path = [i \in InstIds |-> "a.db"]
    /\ conn = [i \in InstIds |-> i = 1]
    /\ txn = [i \in InstIds |-> FALSE]
    /\ work = [i \in InstIds |-> EmptyStore]
    /\ disk = [p \in Paths |->
                 IF p = "a.db"
                 THEN [SchemaStore EXCEPT !.users = {UsersRow(<<u.id, u.username, u.email>>)
                                                       : u \in TrackUsers},
                                          !.songs = {SongsRow(<<t.id, t.title, t.artist,
                                                                t.genre, t.duration>>)
                                                       : t \in TrackSongs}]
                 ELSE EmptyStore]
    /\ clock = 0
    /\ handed = {1}
    /\ resets = FALSE
    /\ tracks = <<>>
    /\ pc = [t \in Threads |-> Idle]
    /\ lock = NoThread
    /\ lastOp = Call("initialize_database", 1, "ok", NoArg)
    /\ created = {}
    /\ added = <<>>

NextTracks ==
    \/ \E l \in TrackPlaylists : PlaylistRepoCreate(l, FALSE)
    \/ \E t \in SongIds, f \in BOOLEAN : PlaylistRepoAddSong("p1", t, f)
    \/ \E t \in SongIds : PlaylistRepoRemoveSong("p1", t, FALSE)
    \/ \E k \in 0..2 : PlaylistRepoDelete("p1", k)
    \/ PlaylistRepoGetSongs("p1")
    \/ \E l \in PlaylistIds : PlaylistRepoGetTotalDuration(l)
    \/ \E t \in SongIds : AddSongToPlaylist("p1", t, NoneId, FALSE)
    \/ \E t \in SongIds : RemoveSongFromPlaylist("p1", t, "u1", FALSE)
    \/ \E u \in {NoneId, "u2"}, k \in 0..2 : DeletePlaylist("p1", u, k)
    \/ GetPlaylistSongs("p1")
    \/ Tick

SpecTracks == InitTracks /\ [][NextTracks]_vars

\* --------------------------------------------- what the creates accept
FactoryReturns(r, arg) ==
    /\ lastOp' = CallRet("TrackFactory.create_song", NoInstance, r.outcome, arg, r.ret)
    /\ UNCHANGED <<instance, nobjs, db_path, conn, disk, work, txn, clock, handed,
                   resets, tracks, pc, lock, created, added>>

\* TrackFactory.create_song(title, duration, artist, genre)
TrackFactoryCreateSong(title, duration, artist, genre, newid) ==
    /\ newid \notin Ids(View(Cur, RepoDb).songs)
    /\ FactoryReturns(TrackFactory_create_song(title, duration, artist, genre, newid),
                      [title |-> title, duration |-> duration, artist |-> artist,
                       genre |-> genre])

CreateDurations == {-1, 0, 180}
CreateSongs ==
    {Song("s1", <<"t">>, d, <<"a">>, <<"g">>) : d \in CreateDurations}
        \cup {Song("s2", v[1], 180, v[2], v[3]) :
                 v \in {<< <<>>, <<"a">>, <<"g">> >>, << <<"t">>, <<>>, <<"g">> >>,
                        << <<"t">>, <<"a">>, <<>> >>}}
        \cup {None}
CreatePlaylists ==
    {Playlist("p1", n, o) : n \in {<<"n">>, <<>>}, o \in {"u1", ""}} \cup {None}

\* Songs from the factory, and songs and playlists of every shape handed to
\* the repositories' create; user u1 for the playlists to belong to.
NextCreate ==
    \/ \E d \in CreateDurations, id \in {"s1", "s2"} :
          TrackFactoryCreateSong(<<"t">>, d, <<"a">>, <<"g">>, id)
    \/ \E t \in CreateSongs : SongRepoCreate(t, FALSE)
    \/ \E u \in {x \in RoundTripUsers : x.id = "u1"} : UserRepoCreate(u, FALSE)
    \/ \E l \in CreatePlaylists : PlaylistRepoCreate(l, FALSE)

SpecCreate == InitUsers /\ [][NextCreate]_vars

\* ------------------------------------------------ ids that have no row
\* SongRepository().update(song)
SongRepoUpdate(song, envfail) ==
    /\ RepoReturns("SongRepository.update", SongRepository_update(Cur, song, envfail),
                   song, Untouched("song", {song.id}))
    /\ UNCHANGED <<instance, nobjs, db_path, conn, clock, handed, resets, tracks, pc, lock>>

\* SongRepository().delete(song_id)
SongRepoDelete(song_id, envfail) ==
    /\ RepoReturns("SongRepository.delete", SongRepository_delete(Cur, song_id, envfail),
                   [id |-> song_id], Untouched("song", {song_id}))
    /\ UNCHANGED <<instance, nobjs, db_path, conn, clock, handed, resets, tracks, pc, lock>>

\* SongService().update_song(song_id, new_title=..., new_duration=...)
UpdateSong(song_id, new_title, new_duration, envfail) ==
    /\ ServiceReturns("update_song",
                      update_song(Cur, song_id, new_title, new_duration, envfail),
                      [id |-> song_id, title |-> new_title, duration |-> new_duration],
                      Untouched("song", {song_id}))
    /\ UNCHANGED <<instance, nobjs, db_path, conn, clock, handed, resets, tracks, pc, lock>>

\* SongService().delete_song(song_id)
DeleteSong(song_id, envfail) ==
    /\ ServiceReturns("delete_song", delete_song(Cur, song_id, envfail),
                      [id |-> song_id], Untouched("song", {song_id}))
    /\ UNCHANGED <<instance, nobjs, db_path, conn, clock, handed, resets, tracks, pc, lock>>

\* PlaylistRepository().update(playlist)
PlaylistRepoUpdate(playlist, envfail) ==
    /\ RepoReturns("PlaylistRepository.update",
                   PlaylistRepository_update(Cur, playlist, envfail),
                   playlist, Untouched("playlist", {playlist.id}))
    /\ UNCHANGED <<instance, nobjs, db_path, conn, clock, handed, resets, tracks, pc, lock>>

\* Creates, updates and deletes of user u1, song s1 and playlist p1 through
\* the repositories and the services, on a database that starts empty.
NextMissing ==
    \/ \E u \in {x \in RoundTripUsers : x.id = "u1"} : UserRepoCreate(u, FALSE)
    \/ \E u \in {x \in RoundTripUsers : x.id = "u1"} : UserRepoUpdate(u, FALSE)
    \/ UserRepoDelete("u1", FALSE)
    \/ \E un \in {<<"A", "B", "C">>, NoneStr} : UpdateUser("u1", un, NoneStr, FALSE)
    \/ DeleteUser("u1", FALSE)
    \/ \E t \in {x \in RoundTripSongs : x.id = "s1"} : SongRepoCreate(t, FALSE)
    \/ \E t \in {x \in RoundTripSongs : x.id = "s1"} : SongRepoUpdate(t, FALSE)
    \/ SongRepoDelete("s1", FALSE)
    \/ \E n \in {<<"b">>, NoneStr}, d \in {<<>>, <<0>>} : UpdateSong("s1", n, d, FALSE)
    \/ DeleteSong("s1", FALSE)
    \/ \E l \in {x \in RoundTripPlaylists : x.owner_id = "u1"} : PlaylistRepoCreate(l, FALSE)
    \/ \E l \in {x \in RoundTripPlaylists : x.owner_id = "u1"} : PlaylistRepoUpdate(l, FALSE)
    \/ PlaylistRepoDelete("p1", 0)
    \/ \E n \in {<<"c">>, NoneStr} : UpdatePlaylist("p1", n, NoneId, FALSE)
    \/ DeletePlaylist("p1", NoneId, 0)

SpecMissing == InitUsers /\ [][NextMissing]_vars

\* ------------------------------------------------------ rows that refer
IntegrityUsers == {u \in TrackUsers : u.id \in {"u1", "u2"}}
IntegritySongs == {t \in TrackSongs : t.id \in {"s1", "s2"}}
IntegrityPlaylists == {Playlist("p1", <<"n">>, "u1"), Playlist("p2", <<"n">>, "u2")}

\* Users, songs and playlists created and deleted and songs put into and
\* taken out of playlists through the repositories, in any order, on a
\* database that starts empty.
NextIntegrity ==
    \/ \E u \in IntegrityUsers : UserRepoCreate(u, FALSE)
    \/ \E u \in IntegrityUsers : UserRepoDelete(u.id, FALSE)
    \/ \E t \in IntegritySongs : SongRepoCreate(t, FALSE)
    \/ \E t \in IntegritySongs : SongRepoDelete(t.id, FALSE)
    \/ \E l \in IntegrityPlaylists : PlaylistRepoCreate(l, FALSE)
    \/ \E l \in IntegrityPlaylists : PlaylistRepoDelete(l.id, 0)
    \/ \E l \in IntegrityPlaylists, t \in IntegritySongs :
          PlaylistRepoAddSong(l.id, t.id, FALSE)
    \/ \E l \in IntegrityPlaylists, t \in IntegritySongs :
          PlaylistRepoRemoveSong(l.id, t.id, FALSE)

SpecIntegrity == InitUsers /\ [][NextIntegrity]_vars

\* -------------------------------------------------- what the services refuse
\* SongService().create_song(title, artist, genre, duration)
CreateSong(title, artist, genre, duration, newid, envfail) ==
    /\ newid \notin Ids(View(Cur, RepoDb).songs)
    /\ ServiceReturns("create_song",
                      create_song(Cur, title, artist, genre, duration, newid, envfail),
                      [title |-> title, artist |-> artist, genre |-> genre,
                       duration |-> duration],
                      created)
    /\ UNCHANGED <<instance, nobjs, db_path, conn, clock, handed, resets, tracks, pc, lock>>

\* Durations a caller passes: below the minimum, inside the bounds, above the
\* maximum.
ServiceDurations == {0, 2, MAX_DURATION + 1}

\* User u1, song s1 and playlist p1 created and updated through the three
\* services with fields that pass and fields that fail validation.
NextValidation ==
    \/ \E un \in {<<"A", "B", "C">>, <<"a", "b">>},
          em \in {<<"a", "@", "b", ".", "c", "o">>, <<"a", "@", "b">>} :
          CreateUser(un, em, "u1", FALSE)
    \/ \E un \in {NoneStr, <<"a", "b">>, <<"a", "b", "d">>},
          em \in {NoneStr, <<"a", "@", "b">>, <<" ">>} :
          UpdateUser("u1", un, em, FALSE)
    \/ \E t \in {<<"a">>, <<" ">>}, a \in {<<"a">>, <<>>}, d \in ServiceDurations :
          CreateSong(t, a, <<"b">>, d, "s1", FALSE)
    \/ \E t \in {NoneStr, <<" ">>, <<"c">>},
          d \in {<<>>} \cup {<<x>> : x \in ServiceDurations} :
          UpdateSong("s1", t, d, FALSE)
    \/ \E n \in {<<"b">>, <<" ">>, <<>>} : CreatePlaylist(n, "u1", "p1", FALSE)
    \/ \E n \in {<<"c">>, <<" ">>} : UpdatePlaylist("p1", n, NoneId, FALSE)

SpecValidation == InitUsers /\ [][NextValidation]_vars

\* ------------------------------------------------- the Playlist in memory
EntityCall(op, outcome, arg, ret) ==
    /\ lastOp' = CallRet(op, NoInstance, outcome, arg, ret)
    /\ UNCHANGED <<instance, nobjs, db_path, conn, disk, work, txn, clock, handed,
                   resets, pc, lock, created, added>>

AddTrackReturns(r, track) ==
    /\ tracks' = r.tracks
    /\ EntityCall("Playlist.add_track", r.outcome, [track |-> track], None)

\* playlist.add_track(track)
PlaylistAddTrack(track) ==
    /\ Len(tracks) < MaxTracks
    /\ AddTrackReturns(Playlist_add_track(tracks, track), track)

\* playlist.remove_track(track_id)
PlaylistRemoveTrack(track_id) ==
    /\ tracks' = Playlist_remove_track(tracks, track_id)
    /\ EntityCall("Playlist.remove_track", "ok", [track_id |-> track_id], None)

\* playlist.get_tracks()
PlaylistGetTracks ==
    /\ EntityCall("Playlist.get_tracks", "ok", NoArg, tracks)
    /\ UNCHANGED tracks

\* playlist.total_duration
PlaylistTotalDuration ==
    /\ EntityCall("Playlist.total_duration", "ok", NoArg, Playlist_total_duration(tracks))
    /\ UNCHANGED tracks

NextEntity ==
    \/ \E track \in TrackSongs \cup {None} : PlaylistAddTrack(track)
    \/ \E id \in SongIds : PlaylistRemoveTrack(id)
    \/ PlaylistGetTracks
    \/ PlaylistTotalDuration

SpecEntity == InitUsers /\ [][NextEntity]_vars

\* --------------------------------------------- one handle, several threads
SharedTransactions ==
    { << [kind |-> "insert_song", params |-> SongParams("s1")], [kind |-> "invalid"] >>,
      << [kind |-> "insert_song", params |-> SongParams("s1")] >> }

\* Threads running execute_transaction on the one manager while another
\* caller runs execute_update on it.
NextShared ==
    \/ \E t \in Threads, q \in SharedTransactions : TxnEnter(t, 1, q)
    \/ \E t \in Threads : TxnStep(t)
    \/ \E t \in Threads : TxnCommit(t)
    \/ \E t \in Threads : TxnExcept(t)
    \/ ExecuteUpdate(1, [kind |-> "insert_song", params |-> SongParams("s2")], FALSE)

SpecShared == InitUsers /\ [][NextShared]_vars

\* ------------------------------------------- playlists and their owners
\* The calls of PlaylistService on playlist p1 by its owner u1, by user u2 and
\* without a requesting user, with names as typed (" b", "c", ""), an owner
\* id and a song id that have no row ("u0", "s0").
NextOwners ==
    \/ \E n \in {<<" ", "b">>, <<>>}, u \in {"u1", "u0"}, f \in BOOLEAN :
          CreatePlaylist(n, u, "p1", f)
    \/ \E n \in {<<"c">>, NoneStr}, u \in {NoneId, "u1", "u2"} :
          UpdatePlaylist("p1", n, u, FALSE)
    \/ \E u \in {NoneId, "u2"} : DeletePlaylist("p1", u, 0)
    \/ \E t \in {"s1", "s2", "s0"}, u \in {NoneId, "u2"} :
          AddSongToPlaylist("p1", t, u, FALSE)
    \/ \E t \in {"s1", "s2"}, u \in {"u1", "u2"} :
          RemoveSongFromPlaylist("p1", t, u, FALSE)

SpecOwners == InitTracks /\ [][NextOwners]_vars

\* ------------------------------------------------------------------ claims
OpenHandles == {i \in InstIds : conn[i]}

\* C1: a failed execute_transaction on a connected manager leaves the stored
\* data as it was before the call and nothing of the list pending on the
\* handle (so nothing a later commit could make durable); a successful one
\* leaves nothing uncommitted.
C1_TransactionAllOrNothing ==
    [][ (lastOp'.op = "execute_transaction" /\ conn[lastOp'.inst]) =>
          /\ ~txn'[lastOp'.inst]
          /\ (lastOp'.outcome # "ok" => disk' = disk) ]_vars

\* C2: execute_update on a connected manager: on success its write is
\* committed (the file holds the statement's result and nothing is pending);
\* when the engine rejects the statement the call raises sqlite3.Error, the
\* transaction is rolled back and the committed data is what it was.
C2_UpdateCommitsOrRollsBack ==
    [][ (lastOp'.op = "execute_update" /\ conn[lastOp'.inst]) =>
          /\ (lastOp'.outcome = "ok" =>
                 /\ ~txn'[lastOp'.inst]
                 /\ disk'[db_path[lastOp'.inst]] =
                       Exec(View(Cur, lastOp'.inst), lastOp'.arg, clock).st)
          /\ (lastOp'.outcome = "sqlite3.Error" =>
                 /\ ~txn'[lastOp'.inst]
                 /\ disk' = disk) ]_vars

C2_Witness ==
    /\ lastOp.op = "execute_update"
    /\ lastOp.outcome = "sqlite3.Error"
    /\ lastOp.arg.kind = "insert_song"
    /\ conn[lastOp.inst]
    /\ disk[db_path[lastOp.inst]].songs # {}

\* C3: all constructions since the last reset_instance returned one and the
\* same object; while reset_instance has never run there is one object and
\* at most one open handle.
C3_OneInstance ==
    /\ Cardinality(handed) <= 1
    /\ (~resets => nobjs <= 1 /\ Cardinality(OpenHandles) <= 1)

C3_Witness ==
    /\ lastOp.op = "construct"
    /\ ~resets
    /\ conn[1]
    /\ handed = {1}

\* C4: execute_query, execute_update and execute_transaction on a manager
\* that is not connected raise RuntimeError and change neither the
\* connection state nor the data; they end without error only when connected.
C4_DisconnectedFailsFast ==
    [][ lastOp'.op \in {"execute_query", "execute_update", "execute_transaction"} =>
          /\ (~conn[lastOp'.inst] =>
                 /\ lastOp'.outcome = "RuntimeError"
                 /\ UNCHANGED <<conn, txn, work, disk, instance>>)
          /\ (lastOp'.outcome = "ok" => conn[lastOp'.inst]) ]_vars

C4_Witness ==
    /\ lastOp.op = "execute_transaction"
    /\ lastOp.outcome = "RuntimeError"
    /\ ~conn[lastOp.inst]
    /\ disk[db_path[lastOp.inst]].tables # {}

\* C5: every Song, User and Playlist a repository create has stored is read
\* back by read_by_id under the id create returned with the field values it
\* was created with, whatever was created since.
C5_CreateThenReadById ==
    \A c \in created : ReadById(Cur, c.kind, c.entity.id) = c.entity

\* Two songs that differ in every field but the title and genre are stored,
\* with a playlist and its owner.
C5_Witness ==
    /\ \E c \in created : \E d \in created :
          /\ c.kind = "song" /\ d.kind = "song"
          /\ c.entity.id # d.entity.id
          /\ c.entity.artist # d.entity.artist
          /\ c.entity.duration # d.entity.duration
    /\ \E c \in created : c.kind = "playlist"
    /\ Cardinality({c \in created : c.kind = "user"}) = MaxUsers

UsersOf(D) == View(D, RepoDb).users

\* The new username/email of a create_user call names a stored user once
\* normalized.
NamesStoredUser(arg, users) ==
    \/ /\ arg.username # NoneStr
       /\ \E u \in users : u.username = NormalizeUsername(arg.username)
    \/ /\ arg.email # NoneStr
       /\ \E u \in users : u.email = NormalizeEmail(arg.email)

\* C6 as stated: create_user with a username that, normalized, is the
\* username of a stored user, or an email that, lowercased and trimmed, is the
\* email of a stored user, raises DuplicateEntityError and inserts no row.
C6_DuplicateAlwaysRaises ==
    [][ (lastOp'.op = "create_user" /\ NamesStoredUser(lastOp'.arg, UsersOf(Cur))) =>
          /\ lastOp'.outcome = "DuplicateEntityError"
          /\ UNCHANGED <<disk, work, txn>> ]_vars

\* C6 amended: create_user inserts no row when its username or email,
\* normalized, is that of a stored user; it then raises DuplicateEntityError
\* if both arguments pass validation and ValidationError if one does not.
C6_DuplicateRaises ==
    [][ (lastOp'.op = "create_user" /\ NamesStoredUser(lastOp'.arg, UsersOf(Cur))) =>
          /\ lastOp'.outcome =
                IF validate_username(lastOp'.arg.username)
                   /\ validate_email(lastOp'.arg.email)
                THEN "DuplicateEntityError" ELSE "ValidationError"
          /\ UNCHANGED <<disk, work, txn>> ]_vars

\* create_user("ABC", " a@b.co ") is refused as a duplicate of the stored
\* user Abc / a@b.co.
C6_Witness ==
    /\ lastOp.op = "create_user"
    /\ lastOp.outcome = "DuplicateEntityError"
    /\ lastOp.arg.username = <<" ", "a", "b", "c", " ">>
    /\ lastOp.arg.email = <<" ", "d", "@", "b", ".", "c", "o", " ">>
    /\ \E u \in UsersOf(Cur) : u.username = <<"A", "b", "c">>

Unique(users) ==
    \A u \in users : \A v \in users :
        u # v => u.username # v.username /\ u.email # v.email

\* The row a UserRepository.create call would insert breaks uniqueness.
WouldBreakUnique(user, users) ==
    \E u \in users : u.username = user.username \/ u.email = user.email

\* C7: no two users rows, committed or pending, share a username or share
\* an email, whatever was created, updated and deleted through UserService
\* and UserRepository; a UserRepository.create whose row would share one
\* raises and leaves the table as it was.
C7_UsernameEmailUnique ==
    /\ [](\A p \in Paths : Unique(disk[p].users))
    /\ [](\A i \in InstIds : Unique(work[i].users))
    /\ [][ (lastOp'.op = "UserRepository.create"
            /\ WouldBreakUnique(lastOp'.arg, UsersOf(Cur))) =>
              /\ lastOp'.outcome # "ok"
              /\ UsersOf(Cur)' = UsersOf(Cur) ]_vars

C7_Witness ==
    /\ lastOp.op = "UserRepository.create"
    /\ lastOp.outcome = "sqlite3.Error"
    /\ Cardinality(UsersOf(Cur)) = 2
    /\ \E u \in UsersOf(Cur) : u.id # lastOp.arg.id /\ u.email = lastOp.arg.email

\* The songs of a playlist in the order they were added
AddedTo(playlist_id) ==
    LET Mine(pair) == pair[1] = playlist_id
        mine == SelectSeq(added, Mine)
    IN [k \in DOMAIN mine |-> mine[k][2]]

IdsOf(songs) == [k \in DOMAIN songs |-> songs[k].id]

\* C8: when PlaylistRepository.delete returns True or
\* PlaylistService.delete_playlist succeeds, no playlist_songs row with the
\* playlist's id is left, however many songs it held, and get_playlist_songs
\* for that id then gives the empty list (repository) or EntityNotFoundError
\* (service).
C8_DeleteRemovesJunctionRows ==
    [][ \A pid \in PlaylistIds :
          (/\ lastOp'.op \in {"PlaylistRepository.delete", "delete_playlist"}
           /\ lastOp'.arg.playlist_id = pid
           /\ lastOp'.outcome = "ok"
           /\ lastOp'.ret = TRUE) =>
            /\ \A p \in Paths : RowsOf(disk'[p], pid) = {}
            /\ \A i \in InstIds : RowsOf(work'[i], pid) = {}
            /\ (PlaylistRepository_get_playlist_songs(Cur, pid))'
                  = [outcome |-> "ok", rets |-> {<<>>}]
            /\ (get_playlist_songs(Cur, pid).outcome)' = "EntityNotFoundError" ]_vars

\* A playlist that held three songs has been deleted.
C8_Witness ==
    /\ lastOp.op \in {"PlaylistRepository.delete", "delete_playlist"}
    /\ lastOp.outcome = "ok"
    /\ lastOp.ret = TRUE
    /\ lastOp.arg.had = 3

\* C9: a PlaylistRepository.delete that fails leaves the store as it was
\* before the call.
C9_DeleteAllOrNothing ==
    [][ (lastOp'.op = "PlaylistRepository.delete" /\ lastOp'.outcome # "ok") =>
          disk' = disk ]_vars

\* C10: get_playlist_songs returns the songs of the playlist in the order in
\* which they were added.
C10_InsertionOrder ==
    [][ /\ (lastOp'.op = "PlaylistRepository.get_playlist_songs"
            /\ lastOp'.outcome = "ok") =>
              lastOp'.ret = AddedTo(lastOp'.arg.playlist_id)
        /\ (lastOp'.op = "get_playlist_songs" /\ lastOp'.outcome = "ok") =>
              IdsOf(lastOp'.ret) = AddedTo(lastOp'.arg.playlist_id) ]_vars

\* The durations of the stored songs, by id
DurationOf(song_id) == (CHOOSE t \in TrackSongs : t.id = song_id).duration

RECURSIVE SumOfAdded(_)
SumOfAdded(ids) == IF ids = <<>> THEN 0 ELSE DurationOf(Head(ids)) + SumOfAdded(Tail(ids))

\* C11: get_total_duration(playlist_id) returns, without error, the sum of the
\* durations of the songs that were added to the playlist and not removed
\* since: 0 for an empty playlist and for a playlist id that has no row.
C11_TotalDuration ==
    [][\A pid \in PlaylistIds :
          (lastOp'.op = "PlaylistRepository.get_total_duration"
           /\ lastOp'.arg.playlist_id = pid)
          => /\ lastOp'.outcome = "ok"
             /\ lastOp'.ret = SumOfAdded(AddedTo(pid))]_vars

\* The total of a playlist that holds s1 (180 s) and s3 (300 s), one of them
\* added in a later second, has been read.
C11_Witness ==
    /\ lastOp.op = "PlaylistRepository.get_total_duration"
    /\ lastOp.outcome = "ok"
    /\ lastOp.arg.playlist_id = "p1"
    /\ lastOp.ret = 480
    /\ AddedTo("p1") = <<"s1", "s3">>
    /\ \E r \in View(Cur, RepoDb).playlist_songs : r.added_at > 0
\* The junction rows the manager sees
JunctionRows == View(Cur, RepoDb).playlist_songs

\* C12: there is never more than one playlist_songs row for a (playlist_id,
\* song_id) pair, and adding a song to a playlist that already holds it,
\* through the repository or the service, is rejected and leaves the junction
\* table as it was.
C12_OneRowPerPair ==
    /\ [](\A r1 \in JunctionRows : \A r2 \in JunctionRows :
            (r1.playlist_id = r2.playlist_id /\ r1.song_id = r2.song_id) => r1 = r2)
    /\ [][(/\ clock' = clock
           /\ lastOp'.op \in {"PlaylistRepository.add_song_to_playlist",
                              "add_song_to_playlist"}
           /\ \E r \in JunctionRows : /\ r.playlist_id = lastOp'.arg.playlist_id
                                       /\ r.song_id = lastOp'.arg.song_id)
          => /\ lastOp'.outcome # "ok"
             /\ JunctionRows' = JunctionRows]_vars

\* The service has refused to add a song that playlist p1 has held since an
\* earlier second.
C12_Witness ==
    /\ lastOp.op = "add_song_to_playlist"
    /\ lastOp.outcome = "DatabaseError"
    /\ \E r \in JunctionRows : /\ r.playlist_id = lastOp.arg.playlist_id
                                /\ r.song_id = lastOp.arg.song_id
                                /\ r.added_at < clock
\* The playlist a call names, as stored when the call is made
StoredPlaylists(playlist_id) == {l \in View(Cur, RepoDb).playlists : l.id = playlist_id}

\* C13: update_playlist, delete_playlist, add_song_to_playlist and
\* remove_song_from_playlist of PlaylistService, called with a requesting user
\* id that is not the owner_id of the stored playlist, raise
\* AuthorizationError and leave the database as it was.
C13_OwnerOnly ==
    [][(/\ clock' = clock
        /\ lastOp'.op \in {"update_playlist", "delete_playlist", "add_song_to_playlist",
                           "remove_song_from_playlist"}
        /\ lastOp'.arg.requesting_user_id # NoneId
        /\ \E l \in StoredPlaylists(lastOp'.arg.playlist_id) :
              l.owner_id # lastOp'.arg.requesting_user_id)
       => /\ lastOp'.outcome = "AuthorizationError"
          /\ UNCHANGED <<disk, work, txn>>]_vars

\* User u2 has been refused the renaming of u1's playlist, which holds a song.
C13_Witness ==
    /\ lastOp.op = "update_playlist"
    /\ lastOp.outcome = "AuthorizationError"
    /\ lastOp.arg.requesting_user_id = "u2"
    /\ lastOp.arg.name = <<"c">>
    /\ \E l \in StoredPlaylists("p1") : l.owner_id = "u1" /\ l.name = <<"B">>
    /\ RowsOf(View(Cur, RepoDb), "p1") # {}
\* A call names a playlist or a song that has no row
NoPlaylistRow(arg) == StoredPlaylists(arg.playlist_id) = {}
NoSongRow(arg) == arg.song_id \notin Ids(View(Cur, RepoDb).songs)

\* C14 as stated: PlaylistService.add_song_to_playlist raises
\* EntityNotFoundError whenever the playlist id or the song id has no row, and
\* remove_song_from_playlist whenever the playlist has no row; no junction row
\* is inserted.
C14_MissingAlwaysNotFound ==
    [][(/\ clock' = clock
        /\ \/ /\ lastOp'.op = "add_song_to_playlist"
              /\ NoPlaylistRow(lastOp'.arg) \/ NoSongRow(lastOp'.arg)
           \/ /\ lastOp'.op = "remove_song_from_playlist"
              /\ NoPlaylistRow(lastOp'.arg))
       => /\ lastOp'.outcome = "EntityNotFoundError"
          /\ JunctionRows' = JunctionRows]_vars

\* C14, amended: in those cases no junction row is inserted and the call
\* raises EntityNotFoundError, except that add_song_to_playlist for a stored
\* playlist, a song without a row and a requesting user who is not the owner
\* raises AuthorizationError.
C14_MissingNotFound ==
    [][(/\ clock' = clock
        /\ \/ /\ lastOp'.op = "add_song_to_playlist"
              /\ NoPlaylistRow(lastOp'.arg) \/ NoSongRow(lastOp'.arg)
           \/ /\ lastOp'.op = "remove_song_from_playlist"
              /\ NoPlaylistRow(lastOp'.arg))
       => /\ lastOp'.outcome =
                IF /\ lastOp'.arg.requesting_user_id # NoneId
                   /\ \E l \in StoredPlaylists(lastOp'.arg.playlist_id) :
                         l.owner_id # lastOp'.arg.requesting_user_id
                THEN "AuthorizationError" ELSE "EntityNotFoundError"
          /\ JunctionRows' = JunctionRows]_vars

\* Adding a song id that has no row to the stored playlist p1, which holds a
\* song, has been refused with EntityNotFoundError.
C14_Witness ==
    /\ lastOp.op = "add_song_to_playlist"
    /\ lastOp.outcome = "EntityNotFoundError"
    /\ lastOp.arg.song_id = "s0"
    /\ StoredPlaylists("p1") # {}
    /\ lastOp.arg.had = 1
\* C15 as stated: PlaylistService.create_playlist with an owner_id that is the
\* id of no user raises EntityNotFoundError and creates no playlists row.
C15_NoOwnerAlwaysNotFound ==
    [][(/\ clock' = clock
        /\ lastOp'.op = "create_playlist"
        /\ lastOp'.arg.owner_id \notin Ids(View(Cur, RepoDb).users))
       => /\ lastOp'.outcome = "EntityNotFoundError"
          /\ UNCHANGED <<disk, work, txn>>]_vars

\* C15, amended: such a call creates no playlists row; it raises
\* EntityNotFoundError when the name passes validation and ValidationError
\* when it does not.  A call that creates a row names an existing owner.
C15_NoOwnerNoPlaylist ==
    [][(clock' = clock /\ lastOp'.op = "create_playlist")
       => /\ lastOp'.arg.owner_id \notin Ids(View(Cur, RepoDb).users)
             => /\ lastOp'.outcome = IF validate_name(lastOp'.arg.name)
                                     THEN "EntityNotFoundError" ELSE "ValidationError"
                /\ UNCHANGED <<disk, work, txn>>
          /\ (View(Cur, RepoDb).playlists)' # View(Cur, RepoDb).playlists
             => lastOp'.arg.owner_id \in Ids(View(Cur, RepoDb).users)]_vars

\* A playlist with a valid name for an owner id that no user has was refused
\* with EntityNotFoundError.
C15_Witness ==
    /\ lastOp.op = "create_playlist"
    /\ lastOp.outcome = "EntityNotFoundError"
    /\ lastOp.arg.owner_id = "u0"
    /\ validate_name(lastOp.arg.name)
    /\ View(Cur, RepoDb).playlists = {}
\* A repository or service call that updates or deletes by id names an id
\* that has no row in its table.
RepoWrites == {"UserRepository.update", "UserRepository.delete", "SongRepository.update",
               "SongRepository.delete", "PlaylistRepository.update",
               "PlaylistRepository.delete"}
ServiceWrites == {"update_user", "delete_user", "update_song", "delete_song",
                  "update_playlist", "delete_playlist"}

NamesNoRow(op, arg) ==
    CASE op \in {"UserRepository.update", "UserRepository.delete", "update_user",
                 "delete_user"} -> arg.id \notin Ids(View(Cur, RepoDb).users)
      [] op \in {"SongRepository.update", "SongRepository.delete", "update_song",
                 "delete_song"} -> arg.id \notin Ids(View(Cur, RepoDb).songs)
      [] op = "PlaylistRepository.update" -> arg.id \notin Ids(View(Cur, RepoDb).playlists)
      [] op \in {"PlaylistRepository.delete", "update_playlist", "delete_playlist"} ->
           arg.playlist_id \notin Ids(View(Cur, RepoDb).playlists)
      [] OTHER -> FALSE

\* C16: an update or delete of an id that has no row leaves the database as
\* it was; the repositories return False and the services raise
\* EntityNotFoundError.
C16_MissingIdNotSuccess ==
    [][(clock' = clock /\ NamesNoRow(lastOp'.op, lastOp'.arg))
       => /\ UNCHANGED <<disk, work, txn>>
          /\ lastOp'.op \in RepoWrites => (lastOp'.outcome = "ok" /\ lastOp'.ret = FALSE)
          /\ lastOp'.op \in ServiceWrites => lastOp'.outcome = "EntityNotFoundError"]_vars

\* PlaylistRepository.update has returned False for a playlist that was
\* deleted, while its owner and a song are stored.
C16_Witness ==
    /\ lastOp.op = "PlaylistRepository.update"
    /\ lastOp.outcome = "ok"
    /\ lastOp.ret = FALSE
    /\ View(Cur, RepoDb).playlists = {}
    /\ View(Cur, RepoDb).users # {}
    /\ View(Cur, RepoDb).songs # {}
\* C17: TrackFactory.create_song with a duration of 0 or below raises
\* ValueError or ValidationError and returns no song.
C17_FactoryRejectsNonPositive ==
    [][(lastOp'.op = "TrackFactory.create_song" /\ lastOp'.arg.duration <= 0)
       => (lastOp'.outcome \in {"ValueError", "ValidationError"}
           /\ lastOp'.ret = None)]_vars

\* A song, a playlist: what a create call was handed is a row's worth of
\* fields (not the stand-in for an argument of another type).
EmptyField(song) == song.title = <<>> \/ song.artist = <<>> \/ song.genre = <<>>

BadSong(song) == song = None \/ song.duration <= 0 \/ EmptyField(song)

\* C18: SongRepository.create ends in an error and inserts nothing when the
\* duration is 0 or below, when title, artist or genre is empty, or when the
\* argument is not a Song; every stored song has a duration above 0.
C18_SongCreateRejects ==
    /\ [](\A t \in View(Cur, RepoDb).songs : t.duration > 0)
    /\ [][(lastOp'.op = "SongRepository.create" /\ BadSong(lastOp'.arg))
          => (lastOp'.outcome \in {"ValueError", "ValidationError"}
              /\ UNCHANGED <<disk, work, txn>>)]_vars

BadPlaylist(playlist) ==
    playlist = None \/ playlist.name = <<>> \/ playlist.owner_id = ""

\* C19: PlaylistRepository.create ends in a validation error and inserts
\* nothing when the name or the owner_id is empty or the argument is not a
\* Playlist.
C19_PlaylistCreateRejects ==
    [][(lastOp'.op = "PlaylistRepository.create" /\ BadPlaylist(lastOp'.arg))
       => (lastOp'.outcome \in {"ValueError", "ValidationError"}
           /\ UNCHANGED <<disk, work, txn>>)]_vars
\* The rows of a database, table by table.
Rows(st) == <<st.users, st.songs, st.playlists, st.playlist_songs>>

\* C20: initialize_database on a connected manager, with nothing failing
\* around it, raises nothing, leaves exactly the four tables, and keeps
\* every row: those the handle sees are the same, and none of the committed
\* ones is lost.
C20_InitializeIdempotent ==
    [][(conn[1] /\ InitializeDatabase(1, 0))
       => /\ lastOp'.outcome = "ok"
          /\ (View(Cur, 1).tables)' = TableNames
          /\ (Rows(View(Cur, 1)))' = Rows(View(Cur, 1))
          /\ \A k \in 1..4 : Rows(disk[db_path[1]])[k] \subseteq (Rows(disk[db_path[1]]))'[k]]_vars

\* initialize_database has returned on a database that holds a committed
\* song: the songs table was there before the call.
C20_Witness ==
    /\ lastOp.op = "initialize_database"
    /\ lastOp.outcome = "ok"
    /\ conn[1]
    /\ disk[db_path[1]].tables = TableNames
    /\ disk[db_path[1]].songs # {}
\* Every owner_id, playlist_id and song_id stored names a stored row.
Referential(st) ==
    /\ \A l \in st.playlists : l.owner_id \in Ids(st.users)
    /\ \A r \in st.playlist_songs :
          r.playlist_id \in Ids(st.playlists) /\ r.song_id \in Ids(st.songs)

ValidatingOps == {"create_song", "update_song", "create_user", "update_user",
                  "create_playlist", "update_playlist"}

\* C22: a create or update of a song, a user or a playlist through its
\* service that raises ValidationError leaves the database as it was.
C22_ValidationErrorNoChange ==
    [][(lastOp'.op \in ValidatingOps /\ lastOp'.outcome = "ValidationError")
       => UNCHANGED <<disk, work, txn>>]_vars

\* update_song has refused a duration above the maximum for a stored song,
\* with a user and a playlist stored as well.
C22_Witness ==
    /\ lastOp.op = "update_song"
    /\ lastOp.outcome = "ValidationError"
    /\ lastOp.arg.duration = <<MAX_DURATION + 1>>
    /\ \E t \in disk["a.db"].songs : t.id = "s1" /\ t.duration = 2
    /\ disk["a.db"].users # {}
    /\ disk["a.db"].playlists # {}
\* The durations of a list of tracks added up from its last track down.
RECURSIVE DurationsUpTo(_, _)
DurationsUpTo(ts, n) == IF n = 0 THEN 0 ELSE ts[n].duration + DurationsUpTo(ts, n - 1)

\* C23: total_duration of the in-memory Playlist is the sum of the durations
\* of the tracks get_tracks returns, 0 when there are none; add_track puts
\* the track at the end, and refuses a value that is not an AudioTrack
\* leaving the list as it was; after remove_track(id) no track has that id.
C23_EntityTracks ==
    /\ [][lastOp'.op = "Playlist.get_tracks" => lastOp'.ret = tracks]_vars
    /\ [][lastOp'.op = "Playlist.total_duration"
          => /\ lastOp'.ret = DurationsUpTo(tracks, Len(tracks))
             /\ tracks = <<>> => lastOp'.ret = 0]_vars
    /\ [][lastOp'.op = "Playlist.add_track"
          => IF lastOp'.arg.track = None
             THEN lastOp'.outcome = "TypeError" /\ tracks' = tracks
             ELSE lastOp'.outcome = "ok" /\ tracks' = tracks \o <<lastOp'.arg.track>>]_vars
    /\ [][lastOp'.op = "Playlist.remove_track"
          => /\ \A k \in 1..Len(tracks') : tracks'[k].id # lastOp'.arg.track_id
             /\ \A id \in SongIds \ {lastOp'.arg.track_id} :
                   LET Is(track) == track.id = id
                   IN SelectSeq(tracks', Is) = SelectSeq(tracks, Is)]_vars

\* total_duration has returned 480 for a playlist holding s1 and s3.
C23_Witness ==
    /\ lastOp.op = "Playlist.total_duration"
    /\ lastOp.ret = 480
    /\ Len(tracks) = 2
    /\ tracks[1].id = "s1"
    /\ tracks[2].id = "s3"
\* C24: connect() on a connected manager opens nothing and keeps the handle
\* and its data as they are, and at no time is more than one handle open.
C24_ConnectIdempotent ==
    /\ [](Cardinality(OpenHandles) <= 1)
    /\ [][\A i \in InstIds :
            (lastOp'.op = "connect" /\ lastOp'.inst = i /\ conn[i])
            => (lastOp'.outcome = "ok" /\ UNCHANGED <<conn, disk, work, txn>>)]_vars
\* C25: disconnect() raises nothing; it leaves the manager disconnected,
\* changes nothing when the manager was disconnected already and no
\* committed data when nothing was pending; a connect() that follows leaves
\* the manager connected and the committed data as it was.
C25_DisconnectIdempotent ==
    /\ [][\A i \in InstIds :
            (lastOp'.op = "disconnect" /\ lastOp'.inst = i)
            => /\ lastOp'.outcome = "ok"
               /\ ~conn'[i]
               /\ ~conn[i] => UNCHANGED <<conn, disk, work, txn>>
               /\ ~txn[i] => disk' = disk]_vars
    /\ [][\A i \in InstIds :
            (lastOp'.op = "connect" /\ lastOp'.inst = i /\ lastOp'.outcome = "ok")
            => (conn'[i] /\ disk' = disk)]_vars
\* C26: when reset_instance() returns, the instance it cleared holds no open
\* handle; the DatabaseConnection(path) that follows returns an object that
\* did not exist before, is not connected and is bound to path.
C26_ResetClosesHandle ==
    /\ [][\A i \in InstIds :
            (lastOp'.op = "reset_instance" /\ instance = i)
            => (~conn'[i] /\ instance' = NoInstance)]_vars
    /\ [][(lastOp'.op = "construct" /\ instance = NoInstance)
          => \A i \in InstIds :
                lastOp'.inst = i
                => /\ i \notin Objs
                   /\ instance' = i
                   /\ ~conn'[i]
                   /\ db_path'[i] = lastOp'.arg.path]_vars
\* The junction rows of one (playlist, song) pair.
PairRows(st, playlist_id, song_id) ==
    {r \in st.playlist_songs : r.playlist_id = playlist_id /\ r.song_id = song_id}

\* C27: remove_song_from_playlist returns False and changes nothing when the
\* pair has no junction row; otherwise it returns True and takes out the
\* rows of that pair and nothing else, so that every other track of every
\* playlist keeps its row and its added_at, by which the tracks are ordered.
C27_RemoveExactlyThePair ==
    [][\A l \in PlaylistIds, t \in SongIds :
         (lastOp'.op = "PlaylistRepository.remove_song_from_playlist"
            /\ lastOp'.outcome = "ok"
            /\ lastOp'.arg.playlist_id = l /\ lastOp'.arg.song_id = t)
         => IF PairRows(disk["a.db"], l, t) = {}
            THEN lastOp'.ret = FALSE /\ UNCHANGED <<disk, work, txn>>
            ELSE /\ lastOp'.ret = TRUE
                 /\ disk'["a.db"] =
                      [disk["a.db"] EXCEPT !.playlist_songs = @ \ PairRows(disk["a.db"], l, t)]
                 /\ UNCHANGED <<work, txn>>]_vars

\* s1 has been taken out of p1, which still holds s2, while p2 holds s1.
C27_Witness ==
    /\ lastOp.op = "PlaylistRepository.remove_song_from_playlist"
    /\ lastOp.ret = TRUE
    /\ lastOp.arg.playlist_id = "p1"
    /\ lastOp.arg.song_id = "s1"
    /\ PairRows(disk["a.db"], "p1", "s2") # {}
    /\ PairRows(disk["a.db"], "p2", "s1") # {}
\* An update_user call names a stored user and asks for a username or an
\* email that, normalized, a different stored user holds.
TakesAnothersName(arg, users) ==
    /\ arg.id \in Ids(users)
    /\ \/ /\ arg.username \notin {NoneStr, <<>>}
          /\ \E u \in users : u.id # arg.id /\ u.username = NormalizeUsername(arg.username)
       \/ /\ arg.email \notin {NoneStr, <<>>}
          /\ \E u \in users : u.id # arg.id /\ u.email = NormalizeEmail(arg.email)

\* An update_user call names a stored user and passes, for each of username
\* and email, nothing or what the user has now.
KeepsOwnName(arg, users) ==
    \E u \in users :
        /\ u.id = arg.id
        /\ arg.username \in {NoneStr, <<>>} \/ NormalizeUsername(arg.username) = u.username
        /\ arg.email \in {NoneStr, <<>>} \/ NormalizeEmail(arg.email) = u.email
        /\ arg.username \notin {NoneStr, <<>>} \/ arg.email \notin {NoneStr, <<>>}

\* C28 as stated: update_user with a username or an email that a different
\* user holds raises DuplicateEntityError and leaves the users as they were;
\* with the user's own username or email it succeeds.
C28_UpdateAlwaysDuplicate ==
    /\ [][(lastOp'.op = "update_user" /\ TakesAnothersName(lastOp'.arg, UsersOf(Cur)))
          => /\ lastOp'.outcome = "DuplicateEntityError"
             /\ UNCHANGED <<disk, work, txn>>]_vars
    /\ [][(lastOp'.op = "update_user" /\ KeepsOwnName(lastOp'.arg, UsersOf(Cur)))
          => lastOp'.outcome = "ok"]_vars

\* C28 amended: update_user with a username or an email that a different
\* user holds leaves the users as they were; it raises DuplicateEntityError
\* when the username and email passed are valid, and DuplicateEntityError or
\* ValidationError when one of them is not.  With the user's own username or
\* email it succeeds and the users are as they were.
C28_UpdateDuplicate ==
    /\ [][(lastOp'.op = "update_user" /\ TakesAnothersName(lastOp'.arg, UsersOf(Cur)))
          => /\ lastOp'.outcome \in {"DuplicateEntityError", "ValidationError"}
             /\ ((lastOp'.arg.username = NoneStr \/ validate_username(lastOp'.arg.username))
                   /\ (lastOp'.arg.email = NoneStr \/ validate_email(lastOp'.arg.email)))
                => lastOp'.outcome = "DuplicateEntityError"
             /\ UNCHANGED <<disk, work, txn>>]_vars
    /\ [][(lastOp'.op = "update_user" /\ KeepsOwnName(lastOp'.arg, UsersOf(Cur)))
          => (lastOp'.outcome = "ok" /\ (UsersOf(Cur))' = UsersOf(Cur))]_vars

\* update_user(u1, " abc ") has been refused because u2 is Abc.
C28_Witness ==
    /\ lastOp.op = "update_user"
    /\ lastOp.outcome = "DuplicateEntityError"
    /\ lastOp.arg.id = "u1"
    /\ lastOp.arg.username = <<" ", "a", "b", "c", " ">>
    /\ \E u \in UsersOf(Cur) : u.id = "u2" /\ u.username = <<"A", "b", "c">>
    /\ \E u \in UsersOf(Cur) : u.id = "u1" /\ u.username # <<"A", "b", "c">>
\* C29: as long as reset_instance has not been called, threads constructing
\* at the same time create one object and every one of them is returned
\* that object; between two calls of reset_instance no two different objects
\* are returned.
C29_OneInstanceAmongThreads ==
    /\ Cardinality(handed) <= 1
    /\ ~resets => /\ nobjs <= 1
                  /\ lastOp.op = "construct" => (lastOp.inst = 1 /\ handed = {1})

\* A thread that found no instance, waited for the lock and lost the race
\* has been returned the object the other thread created for another path.
C29_Witness ==
    /\ ~resets
    /\ lastOp.op = "construct"
    /\ lastOp.arg.waited
    /\ lastOp.inst = 1
    /\ db_path[1] # lastOp.arg.path
    /\ nobjs = 1
\* The songs the first n statements of a transaction insert that were not
\* committed when it began.
InsertedBy(queries, n, before) ==
    {queries[k].params[1] : k \in {j \in 1..n : queries[j].kind = "insert_song"}} \ before

\* C30: with threads sharing the manager, no statement of an
\* execute_transaction that is still running is committed, and none of one
\* that failed.
C30_SharedHandleSerialized ==
    /\ [](\A t \in Threads :
             At(t, "for")
             => InsertedBy(pc[t].queries, pc[t].k - 1, pc[t].before)
                   \cap Ids(disk["a.db"].songs) = {})
    /\ [][(lastOp'.op = "execute_transaction" /\ lastOp'.outcome # "ok")
          => InsertedBy(lastOp'.arg.queries, Len(lastOp'.arg.queries), lastOp'.arg.before)
                \cap Ids(disk'["a.db"].songs) = {}]_vars
====
